---- MODULE Spec2Model ----
(***************************************************************************)
(* Meme/template creator: the template-creation session (TemplateCreator,  *)
(* its Pending-Upload Staging and Layout Exporter), the template store,    *)
(* and the editing session that reloads a stored Layout Document           *)
(* (MemeEditor, its Layout Loader).                                        *)
(*                                                                         *)
(* Scheduling is the browser's: one logical thread; every action below is  *)
(* one UI event handler or one continuation of an async function, run to   *)
(* its next suspension point (a network request, a decode, a timer).       *)
(***************************************************************************)
EXTENDS Integers, Sequences, FiniteSets, TLC

\* ---------------------------------------------------------------- bounds
MaxObjs == 2        \* objects a user creates in one session (shapes + files)
MaxRows == 2        \* rows one creation session inserts
MaxSwitches == 1    \* template-type switches in one creation session
MaxDocLen == 3      \* element records in a document given to the loader
MaxEdits == 1       \* adds and deletes of one editing session
MaxResets == 1      \* resets to the original of one editing session
MaxToggles == 3     \* clicks on the preview button in one creation session
MaxOrderObjs == 3    \* elements on a canvas that is reordered
MaxSaveDocLen == 1  \* element records in a document opened in order to save
MaxLoadDocLen == 2  \* element records in a document whose load must end

\* ------------------------------------------------------ program constants
MaxVideoBytes == 41943040      \* 40 * 1024 * 1024
MaxVideoSeconds == 50
PhotoSide == 400
VideoHeight == 500
ReelHeight == 711

\* ------------------------------------------------------------ input sets
TemplateNames == {"", "meme"}
Usernames == {"", "admin"}
Passwords == {"", "admin123", "wrong"}
VideoDurations == {30, 50, 51}
VideoSizes == {MaxVideoBytes, MaxVideoBytes + 1}

\* ------------------------------------------------------------------ URLs
\* A URL is known by its scheme and by the file it names.
PermUrl(id) == [scheme |-> "https", id |-> id]
BlobUrl(id) == [scheme |-> "blob", id |-> id]
EmptyUrl == [scheme |-> "", id |-> 0]
AbsentUrl == [scheme |-> "absent", id |-> 0]

VARIABLES
  \* --- template-creation session (TemplateCreator)
  templateType, templateName, loading, showAdminModal,
  adminUsername, adminPassword, adminLoading,
  selectedObject, maxDuration,
  pendingImageUploads, pendingVideoUploads,
  objects,      \* fabricCanvas.getObjects() of the current canvas, bottom first
  elements,     \* the list of elements the side panel shows
  reads,        \* file reads / decodes started by the upload handlers
  nextId,       \* ids handed out to created objects so far
  saves,        \* admin-login/save attempts in flight
  nSwitches,    \* template-type switches so far
  outcome,      \* how the attempt that ended in the last step ended, else "none"
  liveVideos,   \* videoIds whose object URL and <video> element are held
  canvasSize,   \* width and height of the creation session's canvas
  download,     \* what the download of the last step did, else "none"
  \* --- preview playback of the creation session
  isPlaying, currentTime,
  intervals,    \* the setInterval timers that have not been cleared
  videoElement, \* currentTime and paused of each video object's <video>
  now,          \* Date.now()
  nToggles,     \* clicks on the preview button
  \* --- template store (supabase table `templates`).  Rows are never
  \* updated, so a row read later is the row as it was inserted: the store is
  \* known by its size and by the row the last step added to it.
  nRows,        \* rows inserted
  inserted,     \* the row the last step inserted, else NoRow
  insertedFrom, \* the canvas objects that row was assembled from
  \* --- which view the dashboard shows
  view,
  \* --- editing session (MemeEditor)
  template,     \* template.layout_definition
  edCanvasSize, \* width and height of the editing session's canvas
  edObjects,    \* fabricCanvas.getObjects(), bottom first
  edBackground, \* fabricCanvas.backgroundImage
  edLoading, originalTemplateData, edSelected,
  edPending,    \* pendingImageUploads of the editing session
  edReads,      \* file reads started by the editor's upload handler
  edEdits,      \* adds, deletes and resets so far in the editing session
  passes,       \* loadTemplateData invocations in flight
  nPasses,      \* loadTemplateData invocations so far
  finished,     \* the pass that finished in the last step, else NoPass
  edTemplateName, edShowAdminModal, edAdminUsername, edAdminPassword,
  edAdminLoading,
  edSaves,      \* admin-login/save attempts of the editing session in flight
  edRows,       \* rows the editing session has inserted
  edOutcome,    \* how the attempt that ended in the last step ended, else "none"
  edInserted,   \* the row the editing session's last step inserted, else NoRow
  \* --- geometry of one element through an export and a reconstruction
  fabricObject,  \* the object on the creator's canvas
  elementRecord, \* the record saveTemplate writes for it, else NoRecord
  rebuiltObject, \* the object createElementFromData builds, else NoFabric
  \* --- one document loaded into two fresh canvases
  twinFails,     \* the records whose image decode fails, in both loads
  twinPasses,    \* the loadTemplateData invocation of each canvas
  twinObjects    \* fabricCanvas.getObjects() of each canvas

playVars == <<isPlaying, currentTime, intervals, videoElement, now, nToggles>>
creatorVars == <<templateType, templateName, loading, showAdminModal,
                 adminUsername, adminPassword, adminLoading, selectedObject,
                 maxDuration, pendingImageUploads, pendingVideoUploads,
                 objects, elements, reads, nextId, saves, nSwitches, outcome,
                 liveVideos, canvasSize, download, playVars>>
storeVars == <<nRows, inserted, insertedFrom>>
edSaveVars == <<edTemplateName, edShowAdminModal, edAdminUsername,
                edAdminPassword, edAdminLoading, edSaves, edRows, edOutcome,
                edInserted>>
geomVars == <<fabricObject, elementRecord, rebuiltObject>>
twinVars == <<twinFails, twinPasses, twinObjects>>
editorVars == <<template, edCanvasSize, edObjects, edBackground, edLoading,
                originalTemplateData, edSelected, edPending, edReads, edEdits,
                passes, nPasses, finished, edSaveVars, geomVars, twinVars>>
vars == <<creatorVars, storeVars, view, editorVars>>

\* ------------------------------------------------------------- sequences
RECURSIVE SeqMax(_)
SeqMax(s) == IF s = <<>> THEN 0
             ELSE LET m == SeqMax(Tail(s)) IN IF Head(s) > m THEN Head(s) ELSE m

Remove(s, i) == [j \in 1..(Len(s) - 1) |-> IF j < i THEN s[j] ELSE s[j + 1]]
Without(s, x) == SelectSeq(s, LAMBDA y : y # x)
Max(a, b) == IF a > b THEN a ELSE b

\* Math.round of the non-negative rational n/d
Round(n, d) == (2 * n + d) \div (2 * d)

\* ================================================================= store
\* a document's `canvas` when the record is missing (or holds none of its
\* fields): every field reads as undefined
NoCanvas == [width |-> 0, height |-> 0, backgroundColor |-> "",
             backgroundImage |-> AbsentUrl]

\* template.layout_definition when the row has none
NoTemplate == [canvas |-> NoCanvas, elements |-> <<>>, maxDuration |-> <<>>]
NoRow == [name |-> "", type |-> "", layout_definition |-> NoTemplate]

\* a step that inserts no row
NothingInserted ==
  /\ nRows' = nRows
  /\ inserted' = NoRow
  /\ insertedFrom' = <<>>

\* ====================================================== creation session
NoObj == [uid |-> 0, type |-> "none", imageId |-> 0, videoId |-> 0,
          isVideo |-> FALSE, videoDuration |-> 0]

Shape(uid, type) == [uid |-> uid, type |-> type, imageId |-> 0, videoId |-> 0,
                     isVideo |-> FALSE, videoDuration |-> 0]
\* img.imageId = imageId (handleImagesUpload)
ImageObj(uid) == [uid |-> uid, type |-> "image", imageId |-> uid, videoId |-> 0,
                  isVideo |-> FALSE, videoDuration |-> 0]
\* img.videoId, img.isVideo, img.videoDuration (handleVideosUpload)
VideoObj(uid, d) == [uid |-> uid, type |-> "image", imageId |-> 0, videoId |-> uid,
                     isVideo |-> TRUE, videoDuration |-> d]

getCanvasDimensionsSquare(tt) == [width |-> PhotoSide, height |-> PhotoSide]

getCanvasDimensions(tt) ==
  IF tt = "video"
  THEN [width |-> Round(VideoHeight * 9, 16), height |-> VideoHeight]
  ELSE [width |-> PhotoSide, height |-> PhotoSide]

getCanvasBackgroundColor(tt) == IF tt = "video" THEN "#000000" ELSE "#ffffff"

\* The admin dialog is modal: while it is open the panel behind it takes no
\* input, and its own fields take input only while it is open.
MainPanelEnabled == view = "creator" /\ ~showAdminModal
ModalEnabled == view = "creator" /\ showAdminModal

\* <Button onClick={handleAdminLogin} disabled={adminLoading}>
ConfirmEnabled == ~adminLoading

\* <Button onClick={handleSaveTemplate} disabled={loading || !templateName}>
SaveButtonEnabled == ~loading /\ templateName # ""

Created == nextId + Len(reads)

\* variant: the upload handler without its staging update
StageNothing(pending, id) == pending
\* variant: the success branch without its staging reset
StagingKept(pending) == pending
\* setPendingImageUploads({}), setPendingVideoUploads({}) after the insert
StagingReset(pending) == <<>>
\* setPendingImageUploads(prev => ({...prev, [imageId]: file}))
StageFile(pending, id) == Append(pending, id)
\* delete updated[selectedObject.imageId]
UnstageFile(pending, id) == Without(pending, id)

OnCanvas(id) == \E i \in DOMAIN objects :
                  objects[i].imageId = id \/ objects[i].videoId = id

\* ---------------------------------------------------------- form fields
SetTemplateName(n) ==
  /\ MainPanelEnabled
  /\ n # templateName
  /\ templateName' = n
  /\ UNCHANGED <<templateType, loading, showAdminModal, adminUsername,
                 adminPassword, adminLoading, selectedObject, maxDuration,
                 pendingImageUploads, pendingVideoUploads, objects, elements, reads,
                 nextId, saves>>
  /\ outcome' = "none"
  /\ NothingInserted
  /\ UNCHANGED <<nSwitches, view, editorVars, liveVideos, canvasSize, playVars>>
  /\ download' = "none"

SetAdminUsername(u) ==
  /\ ModalEnabled
  /\ u # adminUsername
  /\ adminUsername' = u
  /\ UNCHANGED <<templateType, templateName, loading, showAdminModal,
                 adminPassword, adminLoading, selectedObject, maxDuration,
                 pendingImageUploads, pendingVideoUploads, objects, elements, reads,
                 nextId, saves>>
  /\ outcome' = "none"
  /\ NothingInserted
  /\ UNCHANGED <<nSwitches, view, editorVars, liveVideos, canvasSize, playVars>>
  /\ download' = "none"

SetAdminPassword(p) ==
  /\ ModalEnabled
  /\ p # adminPassword
  /\ adminPassword' = p
  /\ UNCHANGED <<templateType, templateName, loading, showAdminModal,
                 adminUsername, adminLoading, selectedObject, maxDuration,
                 pendingImageUploads, pendingVideoUploads, objects, elements, reads,
                 nextId, saves>>
  /\ outcome' = "none"
  /\ NothingInserted
  /\ UNCHANGED <<nSwitches, view, editorVars, liveVideos, canvasSize, playVars>>
  /\ download' = "none"

\* setTemplateType(value): the background effect recolours the canvas of the
\* render, then the canvas effect disposes it and creates an empty one; reads
\* and saves in flight keep the disposed canvas, which has no objects left.
SetTemplateType(tt) ==
  /\ MainPanelEnabled
  /\ tt # templateType
  /\ nSwitches < MaxSwitches
  /\ nSwitches' = nSwitches + 1
  /\ templateType' = tt
  /\ objects' = <<>>
  /\ elements' = <<>>    \* setElements([...fabricCanvas.getObjects()])
  /\ reads' = [i \in DOMAIN reads |-> [reads[i] EXCEPT !.stale = TRUE]]
  /\ saves' = [i \in DOMAIN saves |->
                IF saves[i].stale THEN saves[i]
                ELSE [saves[i] EXCEPT
                        !.stale = TRUE,
                        !.backgroundColor = getCanvasBackgroundColor(tt)]]
  /\ UNCHANGED <<templateName, loading, showAdminModal, adminUsername,
                 adminPassword, adminLoading, selectedObject, maxDuration,
                 pendingImageUploads, pendingVideoUploads, nextId>>
  /\ outcome' = "none"
  /\ NothingInserted
  \* the canvas effect disposes the canvas and creates one of the new
  \* type's dimensions
  /\ canvasSize' = getCanvasDimensions(tt)
  /\ UNCHANGED <<view, editorVars, liveVideos, playVars>>
  /\ download' = "none"

\* ------------------------------------------------------ the elements list
\* useEffect(() => { ...; setElements([...fabricCanvas.getObjects()]) },
\* [fabricCanvas, elements.length]): a list of another length than the one
\* before it is replaced by the current canvas's objects
Resynced(list, current) ==
  IF Len(list) # Len(elements) THEN current ELSE list

\* the canvas read r was started on has disposed since and gets obj: the
\* other reads started on it see it
AddedOnto(rs, r, obj) ==
  [i \in DOMAIN rs |->
     IF rs[r].stale /\ rs[i].canvas = rs[r].canvas
     THEN [rs[i] EXCEPT !.onto = Append(@, obj)] ELSE rs[i]]

\* arrayMove of @dnd-kit/sortable: the item at from is taken out and put in
\* at to
arrayMove(s, from, to) ==
  LET rest == Remove(s, from)
  IN  [k \in DOMAIN s |-> IF k < to THEN rest[k]
                          ELSE IF k = to THEN s[from] ELSE rest[k - 1]]

\* newElements.forEach(obj => fabricCanvas.bringObjectToFront(obj))
RECURSIVE BringToFront(_, _)
BringToFront(objs, list) ==
  IF list = <<>> THEN objs
  ELSE BringToFront(Append(Without(objs, Head(list)), Head(list)), Tail(list))

\* handleDragEnd with active the item at oldIndex and over the item at
\* newIndex (a drop outside the list throws at over.id before any change)
handleDragEnd(oldIndex, newIndex) ==
  /\ MainPanelEnabled
  /\ oldIndex \in DOMAIN elements /\ newIndex \in DOMAIN elements
  /\ oldIndex # newIndex
  /\ LET newElements == arrayMove(elements, oldIndex, newIndex) IN
       /\ elements' = newElements
       /\ objects' = BringToFront(objects, newElements)
  /\ UNCHANGED <<templateType, templateName, loading, showAdminModal,
                 adminUsername, adminPassword, adminLoading, selectedObject,
                 maxDuration, pendingImageUploads, pendingVideoUploads,
                 reads, nextId, saves>>
  /\ outcome' = "none"
  /\ NothingInserted
  /\ UNCHANGED <<nSwitches, view, editorVars, liveVideos, canvasSize, playVars>>
  /\ download' = "none"

\* ----------------------------------------------------------- add shapes
AddShape(type) ==
  /\ MainPanelEnabled
  /\ Created < MaxObjs
  /\ LET obj == Shape(nextId + 1, type) IN
       /\ objects' = Append(objects, obj)
       /\ elements' = Append(objects, obj)   \* object:added
       /\ selectedObject' = obj          \* setActiveObject -> selection:created
  /\ nextId' = nextId + 1
  /\ UNCHANGED <<templateType, templateName, loading, showAdminModal,
                 adminUsername, adminPassword, adminLoading, maxDuration,
                 pendingImageUploads, pendingVideoUploads, reads, saves>>
  /\ outcome' = "none"
  /\ NothingInserted
  /\ UNCHANGED <<nSwitches, view, editorVars, liveVideos, canvasSize, playVars>>
  /\ download' = "none"

addText == AddShape("textbox")
addRectangle == AddShape("rect")
addCircle == AddShape("circle")

\* -------------------------------------------------------- add from file
\* handleImagesUpload, up to reader.readAsDataURL(file)
handleImagesUpload ==
  /\ MainPanelEnabled
  /\ Created < MaxObjs
  /\ reads' = Append(reads, [kind |-> "image", stage |-> "decode",
                             stale |-> FALSE, size |-> 0, duration |-> 0,
                             canvas |-> nSwitches, onto |-> <<>>])
  /\ UNCHANGED <<templateType, templateName, loading, showAdminModal,
                 adminUsername, adminPassword, adminLoading, selectedObject,
                 maxDuration, pendingImageUploads, pendingVideoUploads,
                 objects, elements, nextId, saves>>
  /\ outcome' = "none"
  /\ NothingInserted
  /\ UNCHANGED <<nSwitches, view, editorVars, liveVideos, canvasSize, playVars>>
  /\ download' = "none"

\* FabricImage.fromURL(imageUrl).then(...) of handleImagesUpload
ImageDecoded(r) ==
  /\ r \in DOMAIN reads
  /\ reads[r].kind = "image"
  /\ LET obj == ImageObj(nextId + 1) IN
       /\ pendingImageUploads' = StageFile(pendingImageUploads, obj.imageId)
       /\ IF reads[r].stale
          THEN \* added to the disposed canvas, which the list is read from
               /\ UNCHANGED <<objects, selectedObject>>
               /\ elements' = Resynced(Append(reads[r].onto, obj), objects)
          ELSE /\ objects' = Append(objects, obj)
               /\ elements' = Append(objects, obj)
               /\ selectedObject' = obj
       /\ reads' = Remove(AddedOnto(reads, r, obj), r)
  /\ nextId' = nextId + 1
  /\ UNCHANGED <<templateType, templateName, loading, showAdminModal,
                 adminUsername, adminPassword, adminLoading, maxDuration,
                 pendingVideoUploads, saves>>
  /\ outcome' = "none"
  /\ NothingInserted
  /\ UNCHANGED <<nSwitches, view, editorVars, liveVideos, canvasSize, playVars>>
  /\ download' = "none"

\* the file is not an image the browser can decode: the promise rejects
ReadFailed(r) ==
  /\ r \in DOMAIN reads
  /\ reads' = Remove(reads, r)
  /\ UNCHANGED <<templateType, templateName, loading, showAdminModal,
                 adminUsername, adminPassword, adminLoading, selectedObject,
                 maxDuration, pendingImageUploads, pendingVideoUploads,
                 objects, elements, nextId, saves>>
  /\ outcome' = "none"
  /\ NothingInserted
  /\ UNCHANGED <<nSwitches, view, editorVars, liveVideos, canvasSize, playVars>>
  /\ download' = "none"

\* variant: the handler without its size check
VideoSizeAny(size) == TRUE
\* if (file.size > 40 * 1024 * 1024) reject
VideoSizeOk(size) == size <= MaxVideoBytes
\* if (video.duration > 50) reject
VideoDurationOk(d) == d <= MaxVideoSeconds

\* handleVideosUpload, up to video.src = videoUrl; the input is rendered
\* only while templateType === 'video'
handleVideosUpload(size) ==
  /\ MainPanelEnabled
  /\ templateType = "video"
  /\ Created < MaxObjs
  /\ reads' = IF VideoSizeOk(size)
              THEN Append(reads, [kind |-> "video", stage |-> "metadata",
                                  stale |-> FALSE, size |-> size,
                                  duration |-> 0,
                                  canvas |-> nSwitches, onto |-> <<>>])
              ELSE reads                       \* toast.error, return
  /\ UNCHANGED <<templateType, templateName, loading, showAdminModal,
                 adminUsername, adminPassword, adminLoading, selectedObject,
                 maxDuration, pendingImageUploads, pendingVideoUploads,
                 objects, elements, nextId, saves>>
  /\ outcome' = "none"
  /\ NothingInserted
  /\ UNCHANGED <<nSwitches, view, editorVars, liveVideos, canvasSize, playVars>>
  /\ download' = "none"

\* video.onloadedmetadata: video.duration is known from here on
VideoMetadataLoaded(r, d) ==
  /\ r \in DOMAIN reads
  /\ reads[r].kind = "video" /\ reads[r].stage = "metadata"
  /\ reads' = IF VideoDurationOk(d)
              THEN [reads EXCEPT ![r].stage = "frame", ![r].duration = d]
              ELSE Remove(reads, r)
  /\ UNCHANGED <<templateType, templateName, loading, showAdminModal,
                 adminUsername, adminPassword, adminLoading, selectedObject,
                 maxDuration, pendingImageUploads, pendingVideoUploads,
                 objects, elements, nextId, saves>>
  /\ outcome' = "none"
  /\ NothingInserted
  /\ UNCHANGED <<nSwitches, view, editorVars, liveVideos, canvasSize, playVars>>
  /\ download' = "none"

\* video.oncanplaythrough ... FabricImage.fromURL(frame).then(...)
VideoFrameDecoded(r) ==
  /\ r \in DOMAIN reads
  /\ reads[r].kind = "video" /\ reads[r].stage = "frame"
  /\ LET obj == VideoObj(nextId + 1, reads[r].duration) IN
       /\ pendingVideoUploads' = StageFile(pendingVideoUploads, obj.videoId)
       /\ IF reads[r].stale
          THEN /\ UNCHANGED <<objects, selectedObject>>
               /\ elements' = Resynced(Append(reads[r].onto, obj), objects)
          ELSE /\ objects' = Append(objects, obj)
               /\ elements' = Append(objects, obj)
               /\ selectedObject' = obj
       /\ reads' = Remove(AddedOnto(reads, r, obj), r)
  /\ maxDuration' = Max(maxDuration, reads[r].duration)
  \* img.videoUrl = videoUrl; img.videoElement = video
  /\ liveVideos' = liveVideos \cup {nextId + 1}
  /\ UNCHANGED <<canvasSize, playVars>>
  /\ download' = "none"
  /\ nextId' = nextId + 1
  /\ UNCHANGED <<templateType, templateName, loading, showAdminModal,
                 adminUsername, adminPassword, adminLoading,
                 pendingImageUploads, saves>>
  /\ outcome' = "none"
  /\ NothingInserted
  /\ UNCHANGED <<nSwitches, view, editorVars>>

\* ------------------------------------------------------ select / delete
\* selection:created / selection:updated, or a click in the elements list
SelectObject(i) ==
  /\ MainPanelEnabled
  /\ i \in DOMAIN objects
  /\ selectedObject # objects[i]
  /\ selectedObject' = objects[i]
  /\ UNCHANGED <<templateType, templateName, loading, showAdminModal,
                 adminUsername, adminPassword, adminLoading, maxDuration,
                 pendingImageUploads, pendingVideoUploads, objects, elements, reads,
                 nextId, saves>>
  /\ outcome' = "none"
  /\ NothingInserted
  /\ UNCHANGED <<nSwitches, view, editorVars, liveVideos, canvasSize, playVars>>
  /\ download' = "none"

\* fabricCanvas.remove(selectedObject)
RemoveObject(objs, obj) == SelectSeq(objs, LAMBDA o : o.uid # obj.uid)

RemainingDurations(objs, obj) ==
  LET rest == SelectSeq(objs, LAMBDA o : o.isVideo /\ o.uid # obj.uid)
  IN  [i \in DOMAIN rest |-> rest[i].videoDuration]

handleDelete ==
  /\ MainPanelEnabled
  /\ selectedObject # NoObj
  /\ pendingImageUploads' =
       IF selectedObject.imageId # 0
       THEN UnstageFile(pendingImageUploads, selectedObject.imageId)
       ELSE pendingImageUploads
  /\ pendingVideoUploads' =
       IF selectedObject.videoId # 0
       THEN UnstageFile(pendingVideoUploads, selectedObject.videoId)
       ELSE pendingVideoUploads
  /\ maxDuration' =
       IF selectedObject.videoId # 0
       THEN SeqMax(RemainingDurations(objects, selectedObject))
       ELSE maxDuration
  /\ objects' = RemoveObject(objects, selectedObject)
  /\ elements' = RemoveObject(objects, selectedObject)
  /\ selectedObject' = NoObj
  /\ UNCHANGED <<templateType, templateName, loading, showAdminModal,
                 adminUsername, adminPassword, adminLoading, reads, nextId,
                 saves>>
  /\ outcome' = "none"
  /\ NothingInserted
  /\ UNCHANGED <<nSwitches, view, editorVars, liveVideos, canvasSize, playVars>>
  /\ download' = "none"


\* =============================================== admin login and exporter
\* A save attempt closes over the render in which the confirm button was
\* clicked: the form fields, both staging maps, maxDuration, templateType and
\* the canvas instance are those of that render.
NewAttempt ==
  [pc |-> "auth",
   adminUsername |-> adminUsername, adminPassword |-> adminPassword,
   templateName |-> templateName, templateType |-> templateType,
   pendingImageUploads |-> pendingImageUploads,
   pendingVideoUploads |-> pendingVideoUploads,
   maxDuration |-> maxDuration,
   stale |-> FALSE,            \* the captured canvas has been disposed
   backgroundColor |-> getCanvasBackgroundColor(templateType),
   assembledFrom |-> <<>>,     \* the canvas objects the row was assembled from
   k |-> 0,                    \* position of the upload loop
   imageUrlMapping |-> {}, videoUrlMapping |-> {},
   present |-> TRUE,           \* the file being uploaded has its element on the canvas
   failed |-> FALSE,           \* an upload of this attempt has failed
   row |-> NoRow]

InFlight == {i \in DOMAIN saves : saves[i].pc # "auth"}

\* the request saveTemplate issues once s.k staged uploads of the current
\* loop are behind it: the next image, else the next video, else the thumbnail
NextRequest(s) ==
  IF s.pc = "img" /\ s.k < Len(s.pendingImageUploads)
  THEN [s EXCEPT !.k = s.k + 1,
                 !.present = OnCanvas(s.pendingImageUploads[s.k + 1])]
  ELSE IF s.pc = "img" /\ Len(s.pendingVideoUploads) > 0
  THEN [s EXCEPT !.pc = "vid", !.k = 1,
                 !.present = OnCanvas(s.pendingVideoUploads[1])]
  ELSE IF s.pc = "vid" /\ s.k < Len(s.pendingVideoUploads)
  THEN [s EXCEPT !.k = s.k + 1,
                 !.present = OnCanvas(s.pendingVideoUploads[s.k + 1])]
  ELSE [s EXCEPT !.pc = "thumb", !.k = 0, !.present = TRUE]

\* saveTemplate from its first line to its first await (the credentials are
\* not read again)
StartSave(s) == NextRequest([s EXCEPT !.pc = "img", !.k = 0,
                                      !.adminUsername = "",
                                      !.adminPassword = ""])

Aborted(s) == [s EXCEPT !.pc = "aborted", !.failed = TRUE]

\* variant: the image loop without its `return` on a failed upload
ImageUploadKeepGoing(s, ok) ==
  NextRequest(IF ok
              THEN [s EXCEPT !.imageUrlMapping =
                               @ \cup {s.pendingImageUploads[s.k]}]
              ELSE [s EXCEPT !.failed = TRUE])
\* if (uploadedUrl) imageUrlMapping[imageId] = uploadedUrl; else return
ImageUploadResolved(s, ok) ==
  IF ok
  THEN NextRequest([s EXCEPT !.imageUrlMapping =
                               @ \cup {s.pendingImageUploads[s.k]}])
  ELSE Aborted(s)

\* if (uploadedUrl) videoUrlMapping[videoId] = uploadedUrl; else return
VideoUploadResolved(s, ok) ==
  IF ok
  THEN NextRequest([s EXCEPT !.videoUrlMapping =
                               @ \cup {s.pendingVideoUploads[s.k]}])
  ELSE Aborted(s)

\* canvasObjects.map((obj, index) => ...)
ExportElement(obj, index, imageUrlMapping, videoUrlMapping) ==
  LET isImage == obj.type = "image" /\ ~obj.isVideo
      isVideo == obj.type = "image" /\ obj.isVideo
  IN [id |-> index,
      type |-> IF isVideo THEN "video" ELSE obj.type,
      imageUrl |-> IF ~isImage THEN AbsentUrl
                   ELSE IF obj.imageId \in imageUrlMapping
                        THEN PermUrl(obj.imageId) ELSE EmptyUrl,
      videoUrl |-> IF ~isVideo THEN AbsentUrl
                   ELSE IF obj.videoId \in videoUrlMapping
                        THEN PermUrl(obj.videoId) ELSE BlobUrl(obj.videoId),
      duration |-> IF isVideo THEN obj.videoDuration ELSE 0]

ExportElements(objs, imageUrlMapping, videoUrlMapping) ==
  [i \in DOMAIN objs |->
     ExportElement(objs[i], i, imageUrlMapping, videoUrlMapping)]

\* layoutDefinition and templateData of saveTemplate
AssembleRow(s, objs, backgroundColor) ==
  [name |-> s.templateName,
   type |-> s.templateType,
   layout_definition |->
     [canvas |-> [width |-> getCanvasDimensions(s.templateType).width,
                  height |-> getCanvasDimensions(s.templateType).height,
                  backgroundColor |-> backgroundColor,
                  backgroundImage |-> AbsentUrl],        \* null
      elements |-> ExportElements(objs, s.imageUrlMapping, s.videoUrlMapping),
      maxDuration |-> IF s.templateType = "video"
                      THEN <<s.maxDuration>> ELSE <<>>]]

\* finally { setLoading(false) } ... finally { setAdminLoading(false) }
FinishLogin(i, result) ==
  /\ saves' = Remove(saves, i)
  /\ adminLoading' = FALSE
  /\ outcome' = result

\* variant: saveTemplate without its finally arm
FinishKeepsLoading(i, result) ==
  /\ FinishLogin(i, result)
  /\ UNCHANGED loading

Finish(i, result) ==
  /\ FinishLogin(i, result)
  /\ loading' = FALSE

\* <Button onClick={handleSaveTemplate}>
handleSaveTemplate ==
  /\ MainPanelEnabled
  /\ SaveButtonEnabled
  /\ showAdminModal' = TRUE
  /\ UNCHANGED <<templateType, templateName, loading, adminUsername,
                 adminPassword, adminLoading, selectedObject, maxDuration,
                 pendingImageUploads, pendingVideoUploads, objects, elements, reads,
                 nextId, saves>>
  /\ outcome' = "none"
  /\ NothingInserted
  /\ UNCHANGED <<nSwitches, view, editorVars, liveVideos, canvasSize, playVars>>
  /\ download' = "none"

\* Cancel, Escape or a click outside the dialog
CancelModal ==
  /\ ModalEnabled
  /\ showAdminModal' = FALSE
  /\ UNCHANGED <<templateType, templateName, loading, adminUsername,
                 adminPassword, adminLoading, selectedObject, maxDuration,
                 pendingImageUploads, pendingVideoUploads, objects, elements, reads,
                 nextId, saves>>
  /\ outcome' = "none"
  /\ NothingInserted
  /\ UNCHANGED <<nSwitches, view, editorVars, liveVideos, canvasSize, playVars>>
  /\ download' = "none"

\* variant: downloadMeme without its test for video elements
hasNoVideoElements == FALSE
\* fabricCanvas.getObjects().some(obj => obj.isVideo)
hasVideoElements == \E k \in DOMAIN objects : objects[k].isVideo

\* <Button onClick={downloadMeme}>: a notice when the canvas holds a video,
\* else fabricCanvas.toDataURL with the multiplier and a click on a link to
\* the raster, or the catch arm's error toast; the canvas, its objects and
\* the component state are only read
downloadMeme ==
  /\ MainPanelEnabled
  /\ \E ok \in BOOLEAN :
       download' = IF hasVideoElements THEN "notice"
                   ELSE IF ok THEN "file" ELSE "failed"
  /\ UNCHANGED <<templateType, templateName, loading, showAdminModal,
                 adminUsername, adminPassword, adminLoading, selectedObject,
                 maxDuration, pendingImageUploads, pendingVideoUploads,
                 objects, elements, reads, nextId, saves>>
  /\ outcome' = "none"
  /\ NothingInserted
  /\ UNCHANGED <<nSwitches, view, editorVars, liveVideos, canvasSize, playVars>>

\* ------------------------------------------------------ preview playback
\* a step of the preview leaves the form, the canvas, the staging and the
\* store alone
PlayFrame ==
  /\ UNCHANGED <<templateType, templateName, loading, showAdminModal,
                 adminUsername, adminPassword, adminLoading, selectedObject,
                 maxDuration, pendingImageUploads, pendingVideoUploads,
                 objects, elements, reads, nextId, saves>>
  /\ outcome' = "none"
  /\ download' = "none"
  /\ NothingInserted
  /\ UNCHANGED <<nSwitches, view, editorVars, liveVideos, canvasSize>>

\* fabricCanvas.getObjects().filter(obj => obj.isVideo), by uid
videoObjects == {objects[k].uid : k \in {j \in DOMAIN objects : objects[j].isVideo}}
videoDuration(uid) ==
  LET k == CHOOSE j \in DOMAIN objects : objects[j].uid = uid
  IN  objects[k].videoDuration

\* variant: the interval callback without its end of playback
PlaybackNeverOver(elapsed, max) == FALSE
\* if (elapsed >= maxDuration)
PlaybackOver(elapsed, max) == elapsed >= max

\* <Button onClick={togglePlayback}>: shown while the canvas holds a video
togglePlayback ==
  /\ MainPanelEnabled
  /\ videoObjects # {}
  /\ nToggles < MaxToggles
  /\ nToggles' = nToggles + 1
  /\ isPlaying' = ~isPlaying
  /\ IF ~isPlaying
     THEN \* start every video at currentTime and set the interval
          /\ videoElement' =
               [v \in DOMAIN videoElement |->
                  IF v \in videoObjects
                  THEN [currentTime |-> currentTime, paused |-> FALSE]
                  ELSE videoElement[v]]
          /\ intervals' = Append(intervals,
                                 [startTime |-> now - currentTime,
                                  maxDuration |-> maxDuration,
                                  videoObjects |-> videoObjects])
     ELSE \* pause every video; the interval is not cleared
          /\ videoElement' =
               [v \in DOMAIN videoElement |->
                  IF v \in videoObjects
                  THEN [videoElement[v] EXCEPT !.paused = TRUE]
                  ELSE videoElement[v]]
          /\ UNCHANGED intervals
  /\ UNCHANGED <<currentTime, now>>
  /\ PlayFrame

\* the callback of interval t runs
IntervalFired(t) ==
  /\ view = "creator"
  /\ t \in DOMAIN intervals
  /\ LET i == intervals[t]
         elapsed == now - i.startTime
     IN IF PlaybackOver(elapsed, i.maxDuration)
        THEN /\ currentTime' = 0
             /\ isPlaying' = FALSE
             /\ intervals' = Remove(intervals, t)       \* clearInterval
             /\ videoElement' =
                  [v \in DOMAIN videoElement |->
                     IF v \in i.videoObjects
                     THEN [currentTime |-> 0, paused |-> TRUE]
                     ELSE videoElement[v]]
        ELSE /\ currentTime' = elapsed
             /\ videoElement' =
                  [v \in DOMAIN videoElement |->
                     IF v \in i.videoObjects /\ elapsed <= videoDuration(v)
                     THEN [videoElement[v] EXCEPT !.currentTime = elapsed]
                     ELSE videoElement[v]]
             /\ UNCHANGED <<isPlaying, intervals>>
  /\ UNCHANGED <<now, nToggles>>
  /\ PlayFrame

\* the clock moves on while an interval has its end before it
TimePasses ==
  /\ \E t \in DOMAIN intervals :
       now - intervals[t].startTime < intervals[t].maxDuration
  /\ now' = now + 1
  /\ UNCHANGED <<isPlaying, currentTime, intervals, videoElement, nToggles>>
  /\ PlayFrame

\* handleAdminLogin up to the credentials query
handleAdminLogin ==
  /\ ModalEnabled
  /\ ConfirmEnabled
  /\ nRows + Len(saves) < MaxRows
  /\ adminUsername # "" /\ adminPassword # ""
  /\ adminLoading' = TRUE
  /\ saves' = Append(saves, NewAttempt)
  /\ UNCHANGED <<templateType, templateName, loading, showAdminModal,
                 adminUsername, adminPassword, selectedObject, maxDuration,
                 pendingImageUploads, pendingVideoUploads, objects, elements, reads,
                 nextId>>
  /\ outcome' = "none"
  /\ NothingInserted
  /\ UNCHANGED <<nSwitches, view, editorVars, liveVideos, canvasSize, playVars>>
  /\ download' = "none"

\* the row of admin_credentials seeded by the migration
CredentialRows == {"admin"}

\* variant: handleAdminLogin without its password comparison
PasswordIgnored(password) == TRUE
\* adminPassword === 'admin123'
PasswordMatches(password) == password = "admin123"

\* the credentials query resolves with a row
CredentialsFound(i) ==
  /\ i \in DOMAIN saves
  /\ saves[i].pc = "auth"
  /\ saves[i].adminUsername \in CredentialRows
  /\ IF ~PasswordMatches(saves[i].adminPassword)
     THEN /\ FinishLogin(i, "denied")
          /\ UNCHANGED <<showAdminModal, loading>>
     ELSE /\ showAdminModal' = FALSE
          /\ IF saves[i].templateName = ""
             THEN /\ FinishLogin(i, "no name")      \* return before the try
                  /\ UNCHANGED loading
             ELSE /\ saves' = [saves EXCEPT ![i] = StartSave(saves[i])]
                  /\ loading' = TRUE
                  /\ outcome' = "none"
                  /\ UNCHANGED adminLoading
  /\ UNCHANGED <<templateType, templateName, adminUsername, adminPassword,
                 selectedObject, maxDuration, pendingImageUploads,
                 pendingVideoUploads, objects, elements, reads, nextId>>
  /\ NothingInserted
  /\ UNCHANGED <<nSwitches, view, editorVars, liveVideos, canvasSize, playVars>>
  /\ download' = "none"

\* the credentials query resolves with an error or no row, or rejects
CredentialsNotFound(i) ==
  /\ i \in DOMAIN saves
  /\ saves[i].pc = "auth"
  /\ FinishLogin(i, "denied")
  /\ UNCHANGED <<templateType, templateName, loading, showAdminModal, adminUsername,
                 adminPassword, selectedObject, maxDuration,
                 pendingImageUploads, pendingVideoUploads, objects, elements, reads,
                 nextId>>
  /\ NothingInserted
  /\ UNCHANGED <<nSwitches, view, editorVars, liveVideos, canvasSize, playVars>>
  /\ download' = "none"

\* a resolved step of the save either leaves it in flight or ends it
Continue(i, s, result) ==
  IF s.pc = "aborted"
  THEN Finish(i, result)
  ELSE /\ saves' = [saves EXCEPT ![i] = s]
       /\ outcome' = "none"
       /\ UNCHANGED <<loading, adminLoading>>

\* uploadImageToStorage resolves (a URL, or null after an error)
ImageUploadDone(i, ok) ==
  /\ i \in DOMAIN saves
  /\ saves[i].pc = "img"
  /\ Continue(i, ImageUploadResolved(saves[i], ok), "upload failed")
  /\ UNCHANGED <<templateType, templateName, showAdminModal, adminUsername,
                 adminPassword, selectedObject, maxDuration,
                 pendingImageUploads, pendingVideoUploads, objects, elements, reads,
                 nextId>>
  /\ NothingInserted
  /\ UNCHANGED <<nSwitches, view, editorVars, liveVideos, canvasSize, playVars>>
  /\ download' = "none"

\* uploadVideoToStorage resolves (a URL, or null after an error)
VideoUploadDone(i, ok) ==
  /\ i \in DOMAIN saves
  /\ saves[i].pc = "vid"
  /\ Continue(i, VideoUploadResolved(saves[i], ok), "upload failed")
  /\ UNCHANGED <<templateType, templateName, showAdminModal, adminUsername,
                 adminPassword, selectedObject, maxDuration,
                 pendingImageUploads, pendingVideoUploads, objects, elements, reads,
                 nextId>>
  /\ NothingInserted
  /\ UNCHANGED <<nSwitches, view, editorVars, liveVideos, canvasSize, playVars>>
  /\ download' = "none"

\* the thumbnail upload resolves without error: the document is assembled
\* from the captured canvas and the insert is issued.  A disposed canvas
\* has no objects left.
ThumbnailUploaded(i) ==
  /\ i \in DOMAIN saves
  /\ saves[i].pc = "thumb"
  /\ LET s == saves[i]
         objs == IF s.stale THEN <<>> ELSE objects
         row == AssembleRow(s, objs, s.backgroundColor)
     IN \* the closure's staging maps and mappings are not read again
        saves' = [saves EXCEPT ![i] =
                    [s EXCEPT !.pc = "insert", !.row = row,
                              !.assembledFrom = objs,
                              !.pendingImageUploads = <<>>,
                              !.pendingVideoUploads = <<>>,
                              !.imageUrlMapping = {},
                              !.videoUrlMapping = {}]]
  /\ UNCHANGED <<templateType, templateName, loading, showAdminModal,
                 adminUsername, adminPassword, adminLoading, selectedObject,
                 maxDuration, pendingImageUploads, pendingVideoUploads,
                 objects, elements, reads, nextId>>
  /\ outcome' = "none"
  /\ NothingInserted
  /\ UNCHANGED <<nSwitches, view, editorVars, liveVideos, canvasSize, playVars>>
  /\ download' = "none"

\* the thumbnail upload resolves with an error or rejects (as does rendering
\* the thumbnail of a disposed canvas, should it throw)
ThumbnailFailed(i) ==
  /\ i \in DOMAIN saves
  /\ saves[i].pc = "thumb"
  /\ Finish(i, "thumbnail failed")
  /\ UNCHANGED <<templateType, templateName, showAdminModal, adminUsername,
                 adminPassword, selectedObject, maxDuration,
                 pendingImageUploads, pendingVideoUploads, objects, elements, reads,
                 nextId>>
  /\ NothingInserted
  /\ UNCHANGED <<nSwitches, view, editorVars, liveVideos, canvasSize, playVars>>
  /\ download' = "none"

\* the insert resolves without error: the row is stored, the form is reset
InsertDone(i) ==
  /\ i \in DOMAIN saves
  /\ saves[i].pc = "insert"
  /\ nRows' = nRows + 1
  /\ inserted' = saves[i].row
  /\ insertedFrom' = saves[i].assembledFrom
  /\ templateName' = ""
  /\ adminUsername' = ""
  /\ adminPassword' = ""
  /\ pendingImageUploads' = StagingReset(pendingImageUploads)
  /\ pendingVideoUploads' = StagingReset(pendingVideoUploads)
  /\ maxDuration' = 0
  /\ Finish(i, "saved")
  /\ UNCHANGED <<templateType, showAdminModal, selectedObject, objects, elements, reads,
                 nextId>>
  /\ UNCHANGED <<nSwitches, view, editorVars, liveVideos, canvasSize, playVars>>
  /\ download' = "none"

\* variant: the error branch of the insert without its `return`, falling
\* through to the form reset
InsertFailedResets(i) ==
  /\ i \in DOMAIN saves
  /\ saves[i].pc = "insert"
  /\ Finish(i, "insert failed")
  /\ templateName' = ""
  /\ adminUsername' = ""
  /\ adminPassword' = ""
  /\ pendingImageUploads' = <<>>
  /\ pendingVideoUploads' = <<>>
  /\ maxDuration' = 0
  /\ UNCHANGED <<templateType, showAdminModal, selectedObject, objects, elements, reads,
                 nextId>>
  /\ NothingInserted
  /\ UNCHANGED <<nSwitches, view, editorVars, liveVideos, canvasSize, playVars>>
  /\ download' = "none"

\* the insert resolves with an error, or rejects
InsertFailed(i) ==
  /\ i \in DOMAIN saves
  /\ saves[i].pc = "insert"
  /\ Finish(i, "insert failed")
  /\ UNCHANGED <<templateType, templateName, showAdminModal, adminUsername,
                 adminPassword, selectedObject, maxDuration,
                 pendingImageUploads, pendingVideoUploads, objects, elements, reads,
                 nextId>>
  /\ NothingInserted
  /\ UNCHANGED <<nSwitches, view, editorVars, liveVideos, canvasSize, playVars>>
  /\ download' = "none"


\* template.type: the type of the stored row the editor was opened on
\* (the rows stored before the session are photo templates)
edTemplateType == IF inserted # NoRow THEN inserted.type ELSE "photo"

\* if (template.layout_definition?.canvas)
HasCanvas(doc) == doc.canvas # NoCanvas

\* MemeEditor's getCanvasDimensions, of a row with this document and type
DocCanvasDimensions(doc, type) ==
  IF HasCanvas(doc)
  THEN [width |-> IF doc.canvas.width # 0 THEN doc.canvas.width ELSE PhotoSide,
        height |-> IF doc.canvas.height # 0
                   THEN doc.canvas.height ELSE PhotoSide]
  ELSE IF type = "video"
  THEN [width |-> PhotoSide, height |-> ReelHeight]
  ELSE [width |-> PhotoSide, height |-> PhotoSide]

edGetCanvasDimensions == DocCanvasDimensions(template, edTemplateType)

\* ================================================== opening a stored row
\* The dashboard hands a stored row to MemeEditor; TemplateCreator unmounts.
OpenTemplate ==
  /\ view = "creator"
  /\ inserted # NoRow
  /\ view' = "editor"
  /\ template' = inserted.layout_definition
  /\ templateType' = "photo" /\ templateName' = "" /\ loading' = FALSE
  /\ showAdminModal' = FALSE /\ adminUsername' = "" /\ adminPassword' = ""
  /\ adminLoading' = FALSE /\ selectedObject' = NoObj /\ maxDuration' = 0
  /\ pendingImageUploads' = <<>> /\ pendingVideoUploads' = <<>>
  /\ objects' = <<>> /\ elements' = <<>> /\ reads' = <<>> /\ nextId' = 0
  /\ saves' = <<>> /\ nSwitches' = 0 /\ outcome' = "none"
  /\ liveVideos' = {}                  \* the creation session is over
  /\ canvasSize' = getCanvasDimensions("photo")
  /\ download' = "none"
  /\ UNCHANGED playVars
  /\ edCanvasSize' = DocCanvasDimensions(inserted.layout_definition,
                                         inserted.type)
  /\ UNCHANGED <<storeVars, edObjects, edBackground, edLoading,
                 originalTemplateData, edSelected, edPending, edReads, edEdits,
                 passes, nPasses, finished, edSaveVars, geomVars, twinVars>>

\* ======================================================= editing session
NoEdObj == [pass |-> 0, idx |-> 0, type |-> "none", imageId |-> 0]

\* the object pass p reconstructs from record i of the document
Loaded(p, i, type) == [pass |-> p, idx |-> i, type |-> type, imageId |-> 0]
\* the n-th object the user adds
Added(n, type) == [pass |-> 0, idx |-> n, type |-> type, imageId |-> 0]
\* img.imageId = imageId (handleImagesUpload)
AddedImage(n) == [pass |-> 0, idx |-> n, type |-> "image", imageId |-> n]

\* `if (url)`: '' , null and undefined are falsy
HasUrl(u) == u.scheme \notin {"", "absent"}

\* the cases of createElementFromData's switch
SwitchCases == {"textbox", "rect", "circle", "image"}

NoPass == [n |-> 0, pc |-> "none", i |-> 0, pending |-> {}, failed |-> {},
           warned |-> {}, bgFailed |-> FALSE, disturbed |-> FALSE]

NewPass == [n |-> nPasses + 1,   \* which invocation this is
            pc |-> "timer",
            i |-> 1,             \* record the element loop is at
            pending |-> {},      \* records whose image decode is in flight
            failed |-> {},       \* records whose image decode failed
            warned |-> {},       \* records reported by console.warn
            bgFailed |-> FALSE,  \* the background image decode failed
            disturbed |-> FALSE] \* a user mutation or another pass ran inside it

\* a user mutation, or the start of another pass, lands inside every pass
\* that is in flight
Disturb(ps) == [p \in DOMAIN ps |-> [ps[p] EXCEPT !.disturbed = TRUE]]

\* case 'image': if (elementData.imageUrl) { await FabricImage.fromURL(...) }
NeedsDecode(e) == e.type = "image" /\ HasUrl(e.imageUrl)

\* variant: the loop calling createElementFromData without `await`
NotAwaited(e) == FALSE
\* `await createElementFromData(elementData)`: the loop goes on only when
\* the decode it started has settled
Awaited(e) == NeedsDecode(e)

\* variant: the decode error leaves the element loop
OnDecodeErrorRethrow(s, j) ==
  [s EXCEPT !.failed = @ \cup {j}, !.i = Len(template.elements)]
\* variant: a decode error is terminal for the load
OnDecodeErrorFatal(s, j) == [s EXCEPT !.failed = @ \cup {j}, !.pc = "fatal"]
\* catch (error) { console.error('Error loading image element:', error) }
OnDecodeError(s, j) == [s EXCEPT !.failed = @ \cup {j}]

\* variant: the default arm leaves the element loop
OnUnknownTypeThrow(s) ==
  [s EXCEPT !.warned = @ \cup {s.i}, !.i = Len(template.elements)]
\* default: console.warn('Unknown element type:', elementData.type)
OnUnknownType(s) == [s EXCEPT !.warned = @ \cup {s.i}]

\* the synchronous arms of createElementFromData: textbox, rect, circle
createElementFromData(n, i, e, objs) ==
  IF e.type \in SwitchCases \ {"image"}
  THEN Append(objs, Loaded(n, i, e.type))
  ELSE objs

\* for (const elementData of layoutDef.elements) from record s.i on, up to
\* the next suspension or the end of loadTemplateData
RECURSIVE ElementLoop(_, _, _)
ElementLoop(elems, s, objs) ==
  IF s.i > Len(elems)
  THEN [pass |-> [s EXCEPT !.pc = "done"], objects |-> objs]
  ELSE LET e == elems[s.i]
           next == [s EXCEPT !.i = @ + 1]
       IN IF NeedsDecode(e)
          THEN IF Awaited(e)
               THEN [pass |-> [s EXCEPT !.pc = "loop", !.pending = @ \cup {s.i}],
                     objects |-> objs]
               ELSE ElementLoop(elems, [next EXCEPT !.pending = @ \cup {s.i}],
                                objs)
          ELSE IF e.type \in SwitchCases
          THEN ElementLoop(elems, next,
                           createElementFromData(s.n, s.i, e, objs))
          ELSE ElementLoop(elems, [OnUnknownType(s) EXCEPT !.i = @ + 1], objs)

\* the loop of the pass at position p runs on from s; reaching the end, the
\* pass renders, mirrors the objects and clears the loading flag
Resume(p, s, objs) ==
  LET r == ElementLoop(template.elements, s, objs) IN
    /\ edObjects' = r.objects
    /\ IF r.pass.pc = "done" /\ r.pass.pending = {}
       THEN /\ passes' = Remove(passes, p)
            /\ edLoading' = FALSE
            /\ finished' = r.pass
       ELSE /\ passes' = [passes EXCEPT ![p] = r.pass]
            /\ edLoading' = (edLoading /\ r.pass.pc # "done")
            /\ finished' = NoPass

\* variant: loadTemplateData without its fabricCanvas.clear()
KeptCanvas(objs) == objs
\* fabricCanvas.clear()
ClearedCanvas(objs) == <<>>

\* loadTemplateData from its first line to its first await
StartPass ==
  /\ template # NoTemplate
  /\ nPasses' = nPasses + 1
  /\ edLoading' = TRUE
  /\ originalTemplateData' = template
  /\ edObjects' = ClearedCanvas(edObjects)
  /\ edCanvasSize' = edGetCanvasDimensions   \* setWidth, setHeight
  /\ edBackground' = "none"
  /\ edSelected' = NoEdObj
  /\ passes' = Append(Disturb(passes),
                      [NewPass EXCEPT
                         !.pc = IF HasUrl(template.canvas.backgroundImage)
                                THEN "bg" ELSE "timer",
                         !.disturbed = passes # <<>>])
  /\ finished' = NoPass

\* the mount effects have run: user events come after them
Mounted == view = "editor" /\ (nPasses > 0 \/ template = NoTemplate)

\* The admin dialog is modal, as in the creation session.
EdMainPanelEnabled == Mounted /\ ~edShowAdminModal
EdModalEnabled == Mounted /\ edShowAdminModal

\* a step of the editing session outside its admin login and save
NoSaveStep ==
  /\ edOutcome' = "none"
  /\ edInserted' = NoRow
  /\ UNCHANGED <<edTemplateName, edShowAdminModal, edAdminUsername,
                 edAdminPassword, edAdminLoading, edSaves, edRows>>
  /\ UNCHANGED <<creatorVars, storeVars, view, geomVars, twinVars>>

\* useEffect(() => { if (fabricCanvas) loadTemplateData() }, [fabricCanvas])
loadTemplateData ==
  /\ view = "editor"
  /\ nPasses = 0
  /\ StartPass
  /\ UNCHANGED <<template, edPending, edReads, edEdits>>
  /\ NoSaveStep

\* variant: the background decode error reaches the outer catch
OnBackgroundErrorFatal(s) == [s EXCEPT !.bgFailed = TRUE, !.pc = "fatal"]
\* catch (error) { console.error('Error loading background image:', error) }
OnBackgroundError(s) == [s EXCEPT !.bgFailed = TRUE, !.pc = "timer"]

\* the background image decode settles; an error that left the inner try
\* would end the pass in the outer catch and finally
BackgroundDecoded(p, ok) ==
  /\ p \in DOMAIN passes
  /\ passes[p].pc = "bg"
  /\ edBackground' = IF ok THEN "image" ELSE edBackground
  /\ LET s == IF ok THEN [passes[p] EXCEPT !.pc = "timer"]
              ELSE OnBackgroundError(passes[p])
     IN IF s.pc = "timer"
        THEN /\ passes' = [passes EXCEPT ![p] = s]
             /\ finished' = NoPass
             /\ UNCHANGED edLoading
        ELSE /\ passes' = Remove(passes, p)
             /\ finished' = s
             /\ edLoading' = FALSE
  /\ UNCHANGED <<nPasses, template, edCanvasSize, edObjects, originalTemplateData,
                 edSelected, edPending, edReads, edEdits>>
  /\ NoSaveStep

\* await new Promise(resolve => setTimeout(resolve, 100)) is over
TimerFired(p) ==
  /\ p \in DOMAIN passes
  /\ passes[p].pc = "timer"
  /\ Resume(p, passes[p], edObjects)
  /\ UNCHANGED <<nPasses, template, edCanvasSize, edBackground, originalTemplateData, edSelected,
                 edPending, edReads, edEdits>>
  /\ NoSaveStep

\* FabricImage.fromURL(elementData.imageUrl) of record j settles
ElementDecoded(p, j, ok) ==
  /\ p \in DOMAIN passes
  /\ j \in passes[p].pending
  /\ LET e == template.elements[j]
         s == [passes[p] EXCEPT !.pending = @ \ {j}]
         t == IF ok THEN s ELSE OnDecodeError(s, j)
         objs == IF ok THEN Append(edObjects, Loaded(s.n, j, e.type))
                 ELSE edObjects
     IN IF t.pc = "loop"
        THEN Resume(p, [t EXCEPT !.i = @ + 1], objs)
        ELSE /\ passes' = IF t.pc = "done" /\ t.pending = {}
                          THEN Remove(passes, p)
                          ELSE [passes EXCEPT ![p] = t]
             /\ edObjects' = objs
             /\ finished' = NoPass
             /\ UNCHANGED edLoading
  /\ UNCHANGED <<nPasses, template, edCanvasSize, edBackground, originalTemplateData, edSelected,
                 edPending, edReads, edEdits>>
  /\ NoSaveStep

\* ------------------------------------------------- the editor's buttons
\* the sessions explored make their edits first and their resets after them
EditsLeft == edEdits + edReads < MaxEdits /\ nPasses <= 1
ResetsLeft ==
  /\ nPasses <= MaxResets
  /\ edEdits + edReads = 0 \/ (edPending # <<>> /\ passes = <<>> /\ edSaves = <<>>)

edAddShape(type) ==
  /\ EdMainPanelEnabled
  /\ EditsLeft
  /\ LET obj == Added(edEdits + 1, type) IN
       /\ edObjects' = Append(edObjects, obj)
       /\ edSelected' = obj
  /\ edEdits' = edEdits + 1
  /\ passes' = Disturb(passes)
  /\ finished' = NoPass
  /\ UNCHANGED <<nPasses, template, edCanvasSize, edBackground, edLoading, originalTemplateData,
                 edPending, edReads>>
  /\ NoSaveStep

edAddText == edAddShape("textbox")
edAddRectangle == edAddShape("rect")
edAddCircle == edAddShape("circle")

\* MemeEditor's handleImagesUpload, up to reader.readAsDataURL(file)
edHandleImagesUpload ==
  /\ EdMainPanelEnabled
  /\ EditsLeft
  /\ edReads' = edReads + 1
  /\ finished' = NoPass
  /\ UNCHANGED <<nPasses, template, edCanvasSize, edObjects, edBackground, edLoading,
                 originalTemplateData, edSelected, edPending, edEdits, passes>>
  /\ NoSaveStep

\* FabricImage.fromURL(imageUrl).then(...) of MemeEditor's handleImagesUpload
edImageDecoded ==
  /\ view = "editor"
  /\ edReads > 0
  /\ LET obj == AddedImage(edEdits + 1) IN
       /\ edPending' = StageFile(edPending, obj.imageId)
       /\ edObjects' = Append(edObjects, obj)
       /\ edSelected' = obj
  /\ edEdits' = edEdits + 1
  /\ edReads' = edReads - 1
  /\ passes' = Disturb(passes)
  /\ finished' = NoPass
  /\ UNCHANGED <<nPasses, template, edCanvasSize, edBackground, edLoading, originalTemplateData>>
  /\ NoSaveStep

\* the file is not an image the browser can decode
edReadFailed ==
  /\ view = "editor"
  /\ edReads > 0
  /\ edReads' = edReads - 1
  /\ finished' = NoPass
  /\ UNCHANGED <<nPasses, template, edCanvasSize, edObjects, edBackground, edLoading,
                 originalTemplateData, edSelected, edPending, edEdits, passes>>
  /\ NoSaveStep

\* selection:created / selection:updated, or a click in the elements list
edSelectObject(i) ==
  /\ EdMainPanelEnabled
  /\ i \in DOMAIN edObjects
  /\ edSelected # edObjects[i]
  /\ edSelected' = edObjects[i]
  /\ finished' = NoPass
  /\ UNCHANGED <<nPasses, template, edCanvasSize, edObjects, edBackground, edLoading,
                 originalTemplateData, edPending, edReads, edEdits, passes>>
  /\ NoSaveStep

\* MemeEditor's handleDelete
edHandleDelete ==
  /\ EdMainPanelEnabled
  /\ edSelected # NoEdObj
  /\ EditsLeft
  /\ edEdits' = edEdits + 1
  /\ edPending' = IF edSelected.imageId # 0
                  THEN UnstageFile(edPending, edSelected.imageId)
                  ELSE edPending
  /\ edObjects' = SelectSeq(edObjects, LAMBDA o : o # edSelected)
  /\ edSelected' = NoEdObj
  /\ passes' = Disturb(passes)
  /\ finished' = NoPass
  /\ UNCHANGED <<nPasses, template, edCanvasSize, edBackground, edLoading, originalTemplateData,
                 edReads>>
  /\ NoSaveStep

\* Reset to Original: clear, drop the staging, start another pass
clearCanvas ==
  /\ EdMainPanelEnabled
  /\ originalTemplateData # NoTemplate
  /\ ResetsLeft
  /\ edPending' = <<>>
  /\ StartPass
  /\ UNCHANGED <<template, edReads, edEdits>>
  /\ NoSaveStep

\* ------------------------------------- the editor's admin login and save
\* useState(""), set by the loader when the document names a background
\* image and by nothing else
backgroundImage ==
  IF nPasses > 0 /\ HasUrl(template.canvas.backgroundImage)
  THEN template.canvas.backgroundImage
  ELSE EmptyUrl

\* fabricCanvas.backgroundColor: '#ffffff', then what the loader sets
edBackgroundColor ==
  IF nPasses > 0 /\ template.canvas.backgroundColor # ""
  THEN template.canvas.backgroundColor
  ELSE "#ffffff"

\* An attempt closes over the render in which the confirm button was
\* clicked: the form fields, the staging map and the background image state
\* are those of that render.
EdNewAttempt ==
  [pc |-> "auth",
   adminUsername |-> edAdminUsername, adminPassword |-> edAdminPassword,
   templateName |-> edTemplateName,
   pendingImageUploads |-> edPending,
   backgroundImage |-> backgroundImage,
   k |-> 0,                    \* position of the upload loop
   imageUrlMapping |-> {},
   failed |-> FALSE,           \* an upload of this attempt has failed
   row |-> NoRow]

\* the request saveTemplate issues once s.k staged uploads are behind it:
\* the next image, else the thumbnail (backgroundImageFile is never set)
EdNextRequest(s) ==
  IF s.k < Len(s.pendingImageUploads)
  THEN [s EXCEPT !.pc = "img", !.k = s.k + 1]
  ELSE [s EXCEPT !.pc = "thumb", !.k = 0]

\* saveTemplate from its first line to its first await
EdStartSave(s) == EdNextRequest([s EXCEPT !.k = 0, !.adminUsername = "",
                                          !.adminPassword = ""])

\* if (uploadedUrl) imageUrlMapping[imageId] = uploadedUrl; else return
EdImageUploadResolved(s, ok) ==
  IF ok
  THEN EdNextRequest([s EXCEPT !.imageUrlMapping =
                                 @ \cup {s.pendingImageUploads[s.k]}])
  ELSE Aborted(s)

\* canvasObjects.map((obj, index) => ...); fabric's image objects carry no
\* `src` property, so an image outside the mapping is exported with ''
EdExportElement(obj, index, imageUrlMapping) ==
  [id |-> index,
   type |-> obj.type,
   imageUrl |-> IF obj.type # "image" THEN AbsentUrl
                ELSE IF obj.imageId \in imageUrlMapping
                     THEN PermUrl(obj.imageId) ELSE EmptyUrl,
   videoUrl |-> AbsentUrl,
   duration |-> 0]

\* layoutDefinition and templateData of MemeEditor's saveTemplate
EdAssembleRow(s, objs) ==
  [name |-> s.templateName,
   type |-> edTemplateType,
   layout_definition |->
     [canvas |-> [width |-> edGetCanvasDimensions.width,
                  height |-> edGetCanvasDimensions.height,
                  backgroundColor |-> edBackgroundColor,
                  backgroundImage |-> s.backgroundImage],
      elements |-> [i \in DOMAIN objs |->
                      EdExportElement(objs[i], i, s.imageUrlMapping)],
      maxDuration |-> <<>>]]

\* variant: the editor's confirm button without its `disabled`
EdConfirmAlwaysEnabled == TRUE
\* <Button onClick={handleAdminLogin} disabled={adminLoading}>
EdConfirmEnabled == ~edAdminLoading

\* finally { setAdminLoading(false) }
EdFinishLogin(i, result) ==
  /\ edSaves' = Remove(edSaves, i)
  /\ edAdminLoading' = FALSE
  /\ edOutcome' = result

\* finally { setLoading(false) } ... finally { setAdminLoading(false) }
EdFinish(i, result) ==
  /\ EdFinishLogin(i, result)
  /\ edLoading' = FALSE

\* a step of the editor's login or save that leaves the canvas, the loader
\* and the store alone
EdSaveStep ==
  /\ finished' = NoPass
  /\ UNCHANGED <<template, edCanvasSize, edObjects, edBackground, originalTemplateData,
                 edSelected, edReads, edEdits, passes, nPasses>>
  /\ UNCHANGED <<creatorVars, storeVars, view, geomVars, twinVars>>

edSetTemplateName(n) ==
  /\ EdModalEnabled
  /\ n # edTemplateName
  /\ edTemplateName' = n
  /\ edOutcome' = "none" /\ edInserted' = NoRow
  /\ UNCHANGED <<edShowAdminModal, edAdminUsername, edAdminPassword,
                 edAdminLoading, edSaves, edRows, edLoading, edPending>>
  /\ EdSaveStep

edSetAdminUsername(u) ==
  /\ EdModalEnabled
  /\ u # edAdminUsername
  /\ edAdminUsername' = u
  /\ edOutcome' = "none" /\ edInserted' = NoRow
  /\ UNCHANGED <<edTemplateName, edShowAdminModal, edAdminPassword,
                 edAdminLoading, edSaves, edRows, edLoading, edPending>>
  /\ EdSaveStep

edSetAdminPassword(p) ==
  /\ EdModalEnabled
  /\ p # edAdminPassword
  /\ edAdminPassword' = p
  /\ edOutcome' = "none" /\ edInserted' = NoRow
  /\ UNCHANGED <<edTemplateName, edShowAdminModal, edAdminUsername,
                 edAdminLoading, edSaves, edRows, edLoading, edPending>>
  /\ EdSaveStep

\* <Button onClick={handleSaveTemplate}>: never disabled
edHandleSaveTemplate ==
  /\ EdMainPanelEnabled
  /\ edShowAdminModal' = TRUE
  /\ edOutcome' = "none" /\ edInserted' = NoRow
  /\ UNCHANGED <<edTemplateName, edAdminUsername, edAdminPassword,
                 edAdminLoading, edSaves, edRows, edLoading, edPending>>
  /\ EdSaveStep

\* Cancel, Escape or a click outside the dialog
edCancelModal ==
  /\ EdModalEnabled
  /\ edShowAdminModal' = FALSE
  /\ edOutcome' = "none" /\ edInserted' = NoRow
  /\ UNCHANGED <<edTemplateName, edAdminUsername, edAdminPassword,
                 edAdminLoading, edSaves, edRows, edLoading, edPending>>
  /\ EdSaveStep

\* MemeEditor's handleAdminLogin up to the credentials query
edHandleAdminLogin ==
  /\ EdModalEnabled
  /\ EdConfirmEnabled
  /\ edRows + Len(edSaves) < MaxRows
  /\ edAdminUsername # "" /\ edAdminPassword # ""
  /\ edAdminLoading' = TRUE
  /\ edSaves' = Append(edSaves, EdNewAttempt)
  /\ edOutcome' = "none" /\ edInserted' = NoRow
  /\ UNCHANGED <<edTemplateName, edShowAdminModal, edAdminUsername,
                 edAdminPassword, edRows, edLoading, edPending>>
  /\ EdSaveStep

\* the credentials query resolves with a row
edCredentialsFound(i) ==
  /\ i \in DOMAIN edSaves
  /\ edSaves[i].pc = "auth"
  /\ edSaves[i].adminUsername \in CredentialRows
  /\ IF ~PasswordMatches(edSaves[i].adminPassword)
     THEN /\ EdFinishLogin(i, "denied")
          /\ UNCHANGED <<edShowAdminModal, edLoading>>
     ELSE /\ edShowAdminModal' = FALSE
          /\ IF edSaves[i].templateName = ""
             THEN /\ EdFinishLogin(i, "no name")    \* return before the try
                  /\ UNCHANGED edLoading
             ELSE /\ edSaves' = [edSaves EXCEPT ![i] = EdStartSave(edSaves[i])]
                  /\ edLoading' = TRUE
                  /\ edOutcome' = "none"
                  /\ UNCHANGED edAdminLoading
  /\ edInserted' = NoRow
  /\ UNCHANGED <<edTemplateName, edAdminUsername, edAdminPassword, edRows,
                 edPending>>
  /\ EdSaveStep

\* the credentials query resolves with an error or no row, or rejects
edCredentialsNotFound(i) ==
  /\ i \in DOMAIN edSaves
  /\ edSaves[i].pc = "auth"
  /\ EdFinishLogin(i, "denied")
  /\ edInserted' = NoRow
  /\ UNCHANGED <<edTemplateName, edShowAdminModal, edAdminUsername,
                 edAdminPassword, edRows, edLoading, edPending>>
  /\ EdSaveStep

\* uploadImageToStorage resolves (a URL, or null after an error)
edImageUploadDone(i, ok) ==
  /\ i \in DOMAIN edSaves
  /\ edSaves[i].pc = "img"
  /\ LET s == EdImageUploadResolved(edSaves[i], ok) IN
       IF s.pc = "aborted"
       THEN EdFinish(i, "upload failed")
       ELSE /\ edSaves' = [edSaves EXCEPT ![i] = s]
            /\ edOutcome' = "none"
            /\ UNCHANGED <<edLoading, edAdminLoading>>
  /\ edInserted' = NoRow
  /\ UNCHANGED <<edTemplateName, edShowAdminModal, edAdminUsername,
                 edAdminPassword, edRows, edPending>>
  /\ EdSaveStep

\* the thumbnail upload resolves without error: the document is assembled
\* from the canvas as it is now and the insert is issued
edThumbnailUploaded(i) ==
  /\ i \in DOMAIN edSaves
  /\ edSaves[i].pc = "thumb"
  /\ edSaves' = [edSaves EXCEPT ![i] =
                   [edSaves[i] EXCEPT
                      !.pc = "insert",
                      !.row = EdAssembleRow(edSaves[i], edObjects),
                      !.pendingImageUploads = <<>>,
                      !.imageUrlMapping = {}]]
  /\ edOutcome' = "none" /\ edInserted' = NoRow
  /\ UNCHANGED <<edTemplateName, edShowAdminModal, edAdminUsername,
                 edAdminPassword, edAdminLoading, edRows, edLoading, edPending>>
  /\ EdSaveStep

\* the thumbnail upload resolves with an error, or rejects
edThumbnailFailed(i) ==
  /\ i \in DOMAIN edSaves
  /\ edSaves[i].pc = "thumb"
  /\ EdFinish(i, "thumbnail failed")
  /\ edInserted' = NoRow
  /\ UNCHANGED <<edTemplateName, edShowAdminModal, edAdminUsername,
                 edAdminPassword, edRows, edPending>>
  /\ EdSaveStep

\* the insert resolves without error: the row is stored, the form is reset
edInsertDone(i) ==
  /\ i \in DOMAIN edSaves
  /\ edSaves[i].pc = "insert"
  /\ edRows' = edRows + 1
  /\ edInserted' = edSaves[i].row
  /\ edTemplateName' = ""
  /\ edAdminUsername' = ""
  /\ edAdminPassword' = ""
  /\ edPending' = StagingReset(edPending)
  /\ EdFinish(i, "saved")
  /\ UNCHANGED edShowAdminModal
  /\ EdSaveStep

\* the insert resolves with an error, or rejects
edInsertFailed(i) ==
  /\ i \in DOMAIN edSaves
  /\ edSaves[i].pc = "insert"
  /\ EdFinish(i, "insert failed")
  /\ edInserted' = NoRow
  /\ UNCHANGED <<edTemplateName, edShowAdminModal, edAdminUsername,
                 edAdminPassword, edRows, edPending>>
  /\ EdSaveStep

\* ============================================ geometry of the round trip
\* Lengths are in hundredths of a pixel; a scale factor is the fraction
\* n/d.  The objects are fabric's: left/top is the top-left corner of the
\* unrotated object, and its rendered size includes the stroke.

\* JavaScript's a || b on numbers
Or(a, b) == IF a = 0 THEN b ELSE a

Scale(n, d) == [n |-> n, d |-> d]

\* positions and bitmap sizes in hundredths of a pixel, scale factors
Positions == {0, 5000, 12050}
Scales == {Scale(5, 10), Scale(1, 1), Scale(3, 2)}
Bitmaps == {<<32000, 24000>>, <<33300, 25000>>}

NoFabric == [type |-> "none", left |-> 0, top |-> 0, width |-> 0, height |-> 0,
             strokeWidth |-> 0, scaleX |-> Scale(1, 1), scaleY |-> Scale(1, 1),
             radius |-> 0, fontSize |-> 0]

\* new Textbox(text, {left, top, fontSize, width}): one line of text, whose
\* height is fontSize * 1.13; strokeWidth keeps fabric's default of 1
Textbox(left, top, fontSize, width) ==
  [NoFabric EXCEPT !.type = "textbox", !.left = left, !.top = top,
                   !.width = width, !.height = (fontSize * 113) \div 100,
                   !.strokeWidth = 100, !.fontSize = fontSize]

\* new Rect({left, top, width, height, strokeWidth})
Rect(left, top, width, height, strokeWidth) ==
  [NoFabric EXCEPT !.type = "rect", !.left = left, !.top = top,
                   !.width = width, !.height = height,
                   !.strokeWidth = strokeWidth]

\* new FabricCircle({left, top, radius, strokeWidth})
FabricCircle(left, top, radius, strokeWidth) ==
  [NoFabric EXCEPT !.type = "circle", !.left = left, !.top = top,
                   !.width = 2 * radius, !.height = 2 * radius,
                   !.radius = radius, !.strokeWidth = strokeWidth]

\* FabricImage.fromURL(url) of a bitmap of w by h pixels, then
\* img.set({left, top, scaleX, scaleY}); images have no stroke
FabricImage(w, h, left, top, scaleX, scaleY) ==
  [NoFabric EXCEPT !.type = "image", !.left = left, !.top = top,
                   !.width = w, !.height = h,
                   !.scaleX = scaleX, !.scaleY = scaleY]

\* obj.getBoundingRect() of an unrotated object
getBoundingRect(o) ==
  [left |-> o.left, top |-> o.top,
   width |-> ((o.width + o.strokeWidth) * o.scaleX.n) \div o.scaleX.d,
   height |-> ((o.height + o.strokeWidth) * o.scaleY.n) \div o.scaleY.d]

getActualObjectDimensions(o) ==
  LET bounds == getBoundingRect(o)
  IN  [x |-> bounds.left, y |-> bounds.top,
       width |-> bounds.width, height |-> bounds.height]

NoRecord == [type |-> "none", x |-> 0, y |-> 0, width |-> 0, height |-> 0,
             fontSize |-> 0, strokeWidth |-> 0, radius |-> 0,
             originalWidth |-> 0, originalHeight |-> 0]

\* variant: every record keeps the width and height of the bounding box
ExportBoundingBox(o) ==
  LET actual == getActualObjectDimensions(o)
  IN  [NoRecord EXCEPT !.type = o.type, !.x = actual.x, !.y = actual.y,
                       !.width = actual.width, !.height = actual.height,
                       !.strokeWidth = Or(o.strokeWidth, 100),
                       !.radius = Or(o.radius, 5000)]

\* the geometry of the record canvasObjects.map writes for an object
ExportGeometry(o) ==
  LET actual == getActualObjectDimensions(o)
      element == [NoRecord EXCEPT !.type = o.type,
                                  !.x = actual.x, !.y = actual.y,
                                  !.width = actual.width,
                                  !.height = actual.height]
  IN  CASE o.type = "textbox" ->
             [element EXCEPT !.fontSize = Or(o.fontSize, 1600)]
        [] o.type = "image" ->
             [element EXCEPT !.originalWidth = Or(o.width, actual.width),
                             !.originalHeight = Or(o.height, actual.height)]
        [] o.type = "rect" ->
             [element EXCEPT !.strokeWidth = Or(o.strokeWidth, 100)]
        [] o.type = "circle" ->
             [element EXCEPT !.strokeWidth = Or(o.strokeWidth, 100),
                             !.radius = Or(o.radius, 5000),
                             !.width = Or(o.radius, 5000) * 2,
                             !.height = Or(o.radius, 5000) * 2]
        [] OTHER -> element

\* case 'rect' of createElementFromData
RebuildRect(e) ==
  Rect(Or(e.x, 0), Or(e.y, 0), Or(e.width, 10000), Or(e.height, 6000),
       Or(e.strokeWidth, 100))

\* the object createElementFromData builds from a record; w by h is the
\* size of the bitmap FabricImage.fromURL decodes
RebuildGeometry(e, w, h) ==
  CASE e.type = "textbox" ->
         Textbox(Or(e.x, 0), Or(e.y, 0), Or(e.fontSize, 1600),
                 Or(e.width, 20000))
    [] e.type = "rect" -> RebuildRect(e)
    [] e.type = "circle" ->
         FabricCircle(Or(e.x, 0), Or(e.y, 0), Or(e.radius, 5000),
                      Or(e.strokeWidth, 100))
    [] e.type = "image" ->
         IF e.width # 0 /\ e.height # 0
         THEN FabricImage(w, h, Or(e.x, 0), Or(e.y, 0),
                          Scale(e.width, Or(w, 1)), Scale(e.height, Or(h, 1)))
         ELSE FabricImage(w, h, Or(e.x, 0), Or(e.y, 0),
                          Scale(1, 1), Scale(1, 1))
    [] OTHER -> NoFabric

GeomIdle ==
  fabricObject = NoFabric /\ elementRecord = NoRecord /\ rebuiltObject = NoFabric

\* the objects addText, addRectangle, addCircle and handleImagesUpload put
\* on the creator's canvas
NewObjects ==
  {Textbox(5000, 5000, 2400, 20000),
   Rect(10000, 10000, 10000, 6000, 200),
   FabricCircle(10000, 10000, 5000, 200),
   FabricCircle(5000, 5000, 2500, 0)}
  \cup {FabricImage(b[1], b[2], 5000, 5000, Scale(5, 10), Scale(5, 10)) :
          b \in Bitmaps}

GeomFrame ==
  UNCHANGED <<creatorVars, storeVars, view, template, edCanvasSize, edObjects, edBackground,
              edLoading, originalTemplateData, edSelected, edPending, edReads,
              edEdits, passes, nPasses, finished, edSaveVars, twinVars>>

\* the user drags the object or one of its handles on the canvas
ModifyObject(left, top, scaleX, scaleY) ==
  /\ fabricObject # NoFabric /\ elementRecord = NoRecord
  /\ fabricObject' = [fabricObject EXCEPT !.left = left, !.top = top,
                                          !.scaleX = scaleX, !.scaleY = scaleY]
  /\ UNCHANGED <<elementRecord, rebuiltObject>>
  /\ GeomFrame

\* saveTemplate maps the object to its record
ExportObject ==
  /\ fabricObject # NoFabric /\ elementRecord = NoRecord
  /\ elementRecord' = ExportGeometry(fabricObject)
  /\ UNCHANGED <<fabricObject, rebuiltObject>>
  /\ GeomFrame

\* createElementFromData rebuilds the object; an image decodes to the bitmap
\* that was uploaded
RebuildObject ==
  /\ elementRecord # NoRecord /\ rebuiltObject = NoFabric
  /\ rebuiltObject' = RebuildGeometry(elementRecord, fabricObject.width,
                                      fabricObject.height)
  /\ UNCHANGED <<fabricObject, elementRecord>>
  /\ GeomFrame

\* ================================== one document, two fresh canvases
\* Two MemeEditor mounts load the document `template`; the decode of a
\* record's image has the same outcome in both.
Canvases == {1, 2}

TwinIdle ==
  /\ twinFails = {}
  /\ twinPasses = [c \in Canvases |-> NoPass]
  /\ twinObjects = [c \in Canvases |-> <<>>]

TwinFrame ==
  UNCHANGED <<creatorVars, storeVars, view, template, edCanvasSize, edObjects, edBackground,
              edLoading, originalTemplateData, edSelected, edPending, edReads,
              edEdits, passes, nPasses, finished, edSaveVars, geomVars>>

\* loadTemplateData of canvas c from its first line to its first await
TwinLoad(c) ==
  /\ twinPasses[c] = NoPass
  /\ twinPasses' = [twinPasses EXCEPT ![c] =
                      [NewPass EXCEPT
                         !.n = c,
                         !.pc = IF HasUrl(template.canvas.backgroundImage)
                                THEN "bg" ELSE "timer"]]
  /\ twinObjects' = [twinObjects EXCEPT ![c] = <<>>]   \* fabricCanvas.clear()
  /\ UNCHANGED twinFails
  /\ TwinFrame

\* the background image decode of canvas c settles
TwinBackgroundDecoded(c) ==
  /\ twinPasses[c].pc = "bg"
  /\ twinPasses' = [twinPasses EXCEPT ![c].pc = "timer"]
  /\ UNCHANGED <<twinFails, twinObjects>>
  /\ TwinFrame

\* the 100 ms timer of canvas c is over: the element loop starts
TwinTimerFired(c) ==
  /\ twinPasses[c].pc = "timer"
  /\ LET r == ElementLoop(template.elements, twinPasses[c], twinObjects[c])
     IN  /\ twinPasses' = [twinPasses EXCEPT ![c] = r.pass]
         /\ twinObjects' = [twinObjects EXCEPT ![c] = r.objects]
  /\ UNCHANGED twinFails
  /\ TwinFrame

\* FabricImage.fromURL(elementData.imageUrl) of record j settles on canvas c
TwinElementDecoded(c, j) ==
  /\ j \in twinPasses[c].pending
  /\ LET e == template.elements[j]
         ok == j \notin twinFails
         s == [twinPasses[c] EXCEPT !.pending = @ \ {j}]
         t == IF ok THEN s ELSE OnDecodeError(s, j)
         objs == IF ok THEN Append(twinObjects[c], Loaded(c, j, e.type))
                 ELSE twinObjects[c]
         r == IF t.pc = "loop"
              THEN ElementLoop(template.elements, [t EXCEPT !.i = @ + 1], objs)
              ELSE [pass |-> t, objects |-> objs]
     IN  /\ twinPasses' = [twinPasses EXCEPT ![c] = r.pass]
         /\ twinObjects' = [twinObjects EXCEPT ![c] = r.objects]
  /\ UNCHANGED twinFails
  /\ TwinFrame

\* ======================================================== specifications
\* useState(false), useState(0); no interval set; video.currentTime = 0
PlayIdle ==
  /\ isPlaying = FALSE /\ currentTime = 0 /\ intervals = <<>>
  /\ videoElement = [v \in 1..MaxObjs |-> [currentTime |-> 0, paused |-> TRUE]]
  /\ now = 0 /\ nToggles = 0

CreatorInit ==
  /\ templateType = "photo" /\ templateName = "" /\ loading = FALSE
  /\ showAdminModal = FALSE /\ adminUsername = "" /\ adminPassword = ""
  /\ adminLoading = FALSE /\ selectedObject = NoObj /\ maxDuration = 0
  /\ pendingImageUploads = <<>> /\ pendingVideoUploads = <<>>
  /\ objects = <<>> /\ elements = <<>> /\ reads = <<>> /\ nextId = 0
  /\ saves = <<>> /\ nSwitches = 0 /\ outcome = "none"
  /\ liveVideos = {}
  /\ canvasSize = getCanvasDimensions("photo")
  /\ download = "none"
  /\ PlayIdle

EditorIdle ==
  /\ edObjects = <<>> /\ edBackground = "none" /\ edLoading = FALSE
  /\ originalTemplateData = NoTemplate /\ edSelected = NoEdObj
  /\ edPending = <<>> /\ edReads = 0 /\ edEdits = 0
  /\ passes = <<>> /\ nPasses = 0 /\ finished = NoPass
  /\ edTemplateName = "" /\ edShowAdminModal = FALSE
  /\ edAdminUsername = "" /\ edAdminPassword = "" /\ edAdminLoading = FALSE
  /\ edSaves = <<>> /\ edRows = 0 /\ edOutcome = "none" /\ edInserted = NoRow

\* the kinds of record a stored document holds: the five kinds saveTemplate
\* writes, an image record without a URL, and a kind no version writes
DocKinds == {"textbox", "rect", "circle", "image", "noimage", "video", "sparkle"}

\* record i of a stored document, as saveTemplate writes records
DocElement(i, kind) ==
  [id |-> i,
   type |-> IF kind = "noimage" THEN "image" ELSE kind,
   imageUrl |-> IF kind = "image" THEN PermUrl(i)
                ELSE IF kind = "noimage" THEN EmptyUrl ELSE AbsentUrl,
   videoUrl |-> IF kind = "video" THEN PermUrl(i) ELSE AbsentUrl,
   duration |-> IF kind = "video" THEN MaxVideoSeconds ELSE 0]

\* the documents of rows stored before the session
Docs ==
  {[canvas |-> [width |-> PhotoSide, height |-> PhotoSide,
                backgroundColor |-> "#ffffff", backgroundImage |-> bg],
    elements |-> [i \in DOMAIN kinds |-> DocElement(i, kinds[i])],
    maxDuration |-> <<>>] :
     bg \in {AbsentUrl, PermUrl(0)},
     kinds \in UNION {[1..n -> DocKinds] : n \in 0..MaxDocLen}}
  \cup
  \* documents without a `canvas` record
  {[canvas |-> NoCanvas,
    elements |-> [i \in DOMAIN kinds |-> DocElement(i, kinds[i])],
    maxDuration |-> <<>>] :
     kinds \in UNION {[1..n -> DocKinds] : n \in 1..MaxDocLen}}

\* The dashboard shows the creator, or the editor on a row stored earlier
\* (a row may lack its layout_definition).
Init ==
  /\ CreatorInit
  /\ nRows = 0 /\ inserted = NoRow /\ insertedFrom = <<>>
  /\ EditorIdle
  /\ GeomIdle
  /\ TwinIdle
  /\ \/ view = "creator" /\ template = NoTemplate
     \/ view = "editor" /\ template \in Docs \cup {NoTemplate}
  /\ edCanvasSize = edGetCanvasDimensions      \* initializeCanvas

CreatorNext ==
  \/ \E n \in TemplateNames : SetTemplateName(n)
  \/ \E u \in Usernames : SetAdminUsername(u)
  \/ \E p \in Passwords : SetAdminPassword(p)
  \/ \E tt \in {"photo", "video"} : SetTemplateType(tt)
  \/ addText
  \/ addRectangle
  \/ addCircle
  \/ handleImagesUpload
  \/ \E r \in DOMAIN reads : ImageDecoded(r)
  \/ \E r \in DOMAIN reads : ReadFailed(r)
  \/ \E size \in VideoSizes : handleVideosUpload(size)
  \/ \E r \in DOMAIN reads, d \in VideoDurations : VideoMetadataLoaded(r, d)
  \/ \E r \in DOMAIN reads : VideoFrameDecoded(r)
  \/ \E i \in DOMAIN objects : SelectObject(i)
  \/ handleDelete
  \/ handleSaveTemplate
  \/ downloadMeme
  \/ CancelModal
  \/ handleAdminLogin
  \/ \E i \in DOMAIN saves : CredentialsFound(i)
  \/ \E i \in DOMAIN saves : CredentialsNotFound(i)
  \/ \E i \in DOMAIN saves, ok \in BOOLEAN : ImageUploadDone(i, ok)
  \/ \E i \in DOMAIN saves, ok \in BOOLEAN : VideoUploadDone(i, ok)
  \/ \E i \in DOMAIN saves : ThumbnailUploaded(i)
  \/ \E i \in DOMAIN saves : ThumbnailFailed(i)
  \/ \E i \in DOMAIN saves : InsertDone(i)
  \/ \E i \in DOMAIN saves : InsertFailed(i)

EditorNext ==
  \/ loadTemplateData
  \/ \E p \in DOMAIN passes, ok \in BOOLEAN : BackgroundDecoded(p, ok)
  \/ \E p \in DOMAIN passes : TimerFired(p)
  \/ \E p \in DOMAIN passes, j \in 1..MaxDocLen, ok \in BOOLEAN :
       ElementDecoded(p, j, ok)
  \/ edAddText
  \/ edAddRectangle
  \/ edAddCircle
  \/ edHandleImagesUpload
  \/ edImageDecoded
  \/ edReadFailed
  \/ \E i \in DOMAIN edObjects : edSelectObject(i)
  \/ edHandleDelete
  \/ clearCanvas

EditorSaveNext ==
  \/ \E n \in TemplateNames : edSetTemplateName(n)
  \/ \E u \in Usernames : edSetAdminUsername(u)
  \/ \E p \in Passwords : edSetAdminPassword(p)
  \/ edHandleSaveTemplate
  \/ edCancelModal
  \/ edHandleAdminLogin
  \/ \E i \in DOMAIN edSaves : edCredentialsFound(i)
  \/ \E i \in DOMAIN edSaves : edCredentialsNotFound(i)
  \/ \E i \in DOMAIN edSaves, ok \in BOOLEAN : edImageUploadDone(i, ok)
  \/ \E i \in DOMAIN edSaves : edThumbnailUploaded(i)
  \/ \E i \in DOMAIN edSaves : edThumbnailFailed(i)
  \/ \E i \in DOMAIN edSaves : edInsertDone(i)
  \/ \E i \in DOMAIN edSaves : edInsertFailed(i)

\* The creation session, the store, and the editing session's canvas and
\* loader on documents of up to MaxDocLen records.
Next ==
  \/ CreatorNext
  \/ OpenTemplate
  \/ EditorNext

Spec == Init /\ [][Next]_vars

\* The editing session alone, with what the browser guarantees: a timer
\* fires, and a decode that was started settles.
LoadDocs == {d \in Docs : Len(d.elements) <= MaxLoadDocLen}

LoadInit ==
  /\ CreatorInit
  /\ nRows = 0 /\ inserted = NoRow /\ insertedFrom = <<>>
  /\ EditorIdle
  /\ GeomIdle
  /\ TwinIdle
  /\ view = "editor" /\ template \in LoadDocs \cup {NoTemplate}
  /\ edCanvasSize = edGetCanvasDimensions

LoadFairness ==
  /\ WF_vars(loadTemplateData)
  /\ WF_vars(\E p \in DOMAIN passes, ok \in BOOLEAN : BackgroundDecoded(p, ok))
  /\ WF_vars(\E p \in DOMAIN passes : TimerFired(p))
  /\ WF_vars(\E p \in DOMAIN passes, j \in 1..MaxDocLen, ok \in BOOLEAN :
               ElementDecoded(p, j, ok))

SpecLoad == LoadInit /\ [][EditorNext]_vars /\ LoadFairness

\* Both sessions with their admin login and save; the editing session opens
\* on documents of up to MaxSaveDocLen records.
SaveDocKinds == {"rect", "image"}

SaveDocs ==
  {d \in Docs : /\ Len(d.elements) <= MaxSaveDocLen
                /\ \A i \in DOMAIN d.elements :
                     \E kind \in SaveDocKinds :
                       d.elements[i] = DocElement(i, kind)}

SaveInit ==
  /\ CreatorInit
  /\ nRows = 0 /\ inserted = NoRow /\ insertedFrom = <<>>
  /\ EditorIdle
  /\ GeomIdle
  /\ TwinIdle
  /\ \/ view = "creator" /\ template = NoTemplate
     \/ view = "editor" /\ template \in SaveDocs \cup {NoTemplate}
  /\ edCanvasSize = edGetCanvasDimensions

SaveNext ==
  \/ CreatorNext
  \/ EditorNext
  \/ EditorSaveNext

SpecSave == SaveInit /\ [][SaveNext]_vars


\* --- one element through saveTemplate's export and createElementFromData
GeomInit ==
  /\ CreatorInit
  /\ nRows = 0 /\ inserted = NoRow /\ insertedFrom = <<>>
  /\ EditorIdle
  /\ view = "creator" /\ template = NoTemplate
  /\ edCanvasSize = edGetCanvasDimensions
  /\ fabricObject \in NewObjects
  /\ elementRecord = NoRecord /\ rebuiltObject = NoFabric
  /\ TwinIdle

GeomNext ==
  \/ \E left \in Positions, top \in Positions,
        scaleX \in Scales, scaleY \in Scales :
       ModifyObject(left, top, scaleX, scaleY)
  \/ ExportObject
  \/ RebuildObject

SpecGeom == GeomInit /\ [][GeomNext]_vars


\* --- the same document loaded into two fresh canvases
TwinInit ==
  /\ CreatorInit
  /\ nRows = 0 /\ inserted = NoRow /\ insertedFrom = <<>>
  /\ EditorIdle
  /\ GeomIdle
  /\ view = "editor" /\ template \in LoadDocs
  /\ edCanvasSize = edGetCanvasDimensions
  /\ twinFails \in SUBSET {i \in DOMAIN template.elements :
                             NeedsDecode(template.elements[i])}
  /\ twinPasses = [c \in Canvases |-> NoPass]
  /\ twinObjects = [c \in Canvases |-> <<>>]

TwinNext ==
  \/ \E c \in Canvases : TwinLoad(c)
  \/ \E c \in Canvases : TwinBackgroundDecoded(c)
  \/ \E c \in Canvases : TwinTimerFired(c)
  \/ \E c \in Canvases, j \in DOMAIN template.elements : TwinElementDecoded(c, j)

SpecTwin == TwinInit /\ [][TwinNext]_vars

\* --- the elements list and its reordering
\* the canvases the reordering is explored on
OrderCanvases ==
  UNION {{[k \in 1..n |-> Shape(k, kinds[k])] :
            kinds \in [1..n -> {"textbox", "rect"}]} : n \in 0..MaxOrderObjs}

OrderInit ==
  /\ templateType = "photo" /\ templateName = "" /\ loading = FALSE
  /\ showAdminModal = FALSE /\ adminUsername = "" /\ adminPassword = ""
  /\ adminLoading = FALSE /\ selectedObject = NoObj /\ maxDuration = 0
  /\ objects \in OrderCanvases
  /\ elements = objects
  /\ pendingImageUploads = <<>> /\ pendingVideoUploads = <<>>
  /\ liveVideos = {}
  /\ reads = <<>> /\ nextId = Len(objects)
  /\ saves = <<>> /\ nSwitches = 0 /\ outcome = "none"
  /\ canvasSize = getCanvasDimensions("photo")
  /\ download = "none"
  /\ PlayIdle
  /\ nRows = 0 /\ inserted = NoRow /\ insertedFrom = <<>>
  /\ EditorIdle
  /\ GeomIdle
  /\ TwinIdle
  /\ view = "creator" /\ template = NoTemplate
  /\ edCanvasSize = edGetCanvasDimensions

OrderNext ==
  \/ \E tt \in {"photo", "video"} : SetTemplateType(tt)
  \/ addText
  \/ addRectangle
  \/ handleImagesUpload
  \/ \E r \in DOMAIN reads : ImageDecoded(r)
  \/ \E r \in DOMAIN reads : ReadFailed(r)
  \/ \E i \in DOMAIN objects : SelectObject(i)
  \/ handleDelete
  \/ \E oldIndex, newIndex \in DOMAIN elements : handleDragEnd(oldIndex, newIndex)

SpecOrder == OrderInit /\ [][OrderNext]_vars

\* --- preview playback and download on a canvas that has been filled
\* durations of the videos on the canvas, in ticks of the preview clock
PlayDurations == {2, 3}

\* the canvases the preview is explored on: shapes and decoded videos
PlayCanvases ==
  UNION {{[k \in 1..n |-> IF kinds[k] = 0 THEN Shape(k, "rect")
                          ELSE VideoObj(k, kinds[k])] :
            kinds \in [1..n -> {0} \cup PlayDurations]} : n \in 0..MaxObjs}

PlayInit ==
  /\ templateType = "video" /\ templateName = "" /\ loading = FALSE
  /\ showAdminModal = FALSE /\ adminUsername = "" /\ adminPassword = ""
  /\ adminLoading = FALSE /\ selectedObject = NoObj
  /\ objects \in PlayCanvases
  /\ elements = objects
  /\ maxDuration = SeqMax([k \in DOMAIN objects |-> objects[k].videoDuration])
  /\ pendingImageUploads = <<>>
  /\ pendingVideoUploads = SelectSeq([k \in DOMAIN objects |-> k],
                                     LAMBDA k : objects[k].isVideo)
  /\ liveVideos = {k \in DOMAIN objects : objects[k].isVideo}
  /\ reads = <<>> /\ nextId = Len(objects)
  /\ saves = <<>> /\ nSwitches = 0 /\ outcome = "none"
  /\ canvasSize = getCanvasDimensions("video")
  /\ download = "none"
  /\ PlayIdle
  /\ nRows = 0 /\ inserted = NoRow /\ insertedFrom = <<>>
  /\ EditorIdle
  /\ GeomIdle
  /\ TwinIdle
  /\ view = "creator" /\ template = NoTemplate
  /\ edCanvasSize = edGetCanvasDimensions

PlayNext ==
  \/ togglePlayback
  \/ \E t \in DOMAIN intervals : IntervalFired(t)
  \/ TimePasses
  \/ downloadMeme

\* setInterval runs its callback again and again, and the clock moves on
PlayFairness ==
  /\ WF_vars(TimePasses)
  /\ \A t \in 1..MaxToggles : WF_vars(IntervalFired(t))

SpecPlay == PlayInit /\ [][PlayNext]_vars /\ PlayFairness

\* ============================================================ properties
\* how many entries of a staging map are keyed by id
Entries(pending, id) == Cardinality({k \in DOMAIN pending : pending[k] = id})

\* the object pass p reconstructed from record i is on the canvas
Present(p, i) == \E k \in DOMAIN edObjects :
                   edObjects[k].pass = p.n /\ edObjects[k].idx = i

\* records createElementFromData has an arm for, with what the arm needs
Reconstructible(e) == e.type \in SwitchCases \ {"image"} \/ NeedsDecode(e)

\* the indices of keep from i on, ascending
RECURSIVE InOrder(_, _, _)
InOrder(i, n, keep) ==
  IF i > n THEN <<>>
  ELSE (IF i \in keep THEN <<i>> ELSE <<>>) \o InOrder(i + 1, n, keep)

\* an undisturbed pass has just finished
JustLoaded == finished # NoPass /\ ~finished.disturbed

\* C1: a pass has at most one reconstruction pending, which its loop is
\* waiting on, and any two canvas objects reconstructed by the same pass lie
\* in the order of their records, whatever the decodes' latencies.
C1_SequentialReconstruction ==
  /\ \A p \in DOMAIN passes :
       /\ Cardinality(passes[p].pending) <= 1
       /\ passes[p].pending # {} =>
            passes[p].pc = "loop" /\ passes[p].pending = {passes[p].i}
  /\ \A a, b \in DOMAIN edObjects :
       (a < b /\ edObjects[a].pass # 0 /\ edObjects[a].pass = edObjects[b].pass)
         => edObjects[a].idx < edObjects[b].idx

\* a load has finished with a decoded image below an element of a later record
C1_Witness ==
  /\ finished # NoPass
  /\ \E a, b \in DOMAIN edObjects :
       /\ a < b
       /\ edObjects[a].pass = finished.n /\ edObjects[b].pass = finished.n
       /\ edObjects[a].type = "image" /\ edObjects[b].type # "image"

\* C2: every row a save inserts carries a permanent URL in the imageUrl of
\* each image record and in the videoUrl of each video record.
C2_PermanentUrls ==
  inserted # NoRow =>
    \A k \in DOMAIN inserted.layout_definition.elements :
      LET e == inserted.layout_definition.elements[k] IN
        /\ e.type = "image" => e.imageUrl.scheme = "https"
        /\ e.type = "video" => e.videoUrl.scheme = "https"

\* C3: in the creation session and in the editing session, at most one
\* admin-login/save attempt is in flight at any time.
C3_SaveMutualExclusion == Len(saves) <= 1 /\ Len(edSaves) <= 1

\* the editing session's save is past the login, with a request pending,
\* while the dialog has been opened again and holds a name and credentials
C3_Witness ==
  /\ Len(edSaves) = 1
  /\ edSaves[1].pc \in {"img", "thumb", "insert"}
  /\ edShowAdminModal
  /\ edTemplateName # "" /\ edAdminUsername # "" /\ edAdminPassword # ""

\* C4: in either session, an attempt one of whose uploads failed is over:
\* it issues no further request, and the step in which it ends assembles no
\* document and inserts no row.
C4_FailedUploadAborts ==
  /\ \A i \in DOMAIN saves : ~saves[i].failed
  /\ outcome \in {"upload failed", "thumbnail failed"} => inserted = NoRow
  /\ \A i \in DOMAIN edSaves : ~edSaves[i].failed
  /\ edOutcome \in {"upload failed", "thumbnail failed"} => edInserted = NoRow

\* a save has just ended on a failed upload with more than one file staged
C4_Witness ==
  /\ outcome = "upload failed"
  /\ Len(pendingImageUploads) + Len(pendingVideoUploads) >= 2
  /\ nRows = 0

\* C5: when an undisturbed pass finishes, the records whose decode failed
\* are the only reconstructible records of the document without an object
\* on the canvas.
C5_DecodeFailureIsolated ==
  JustLoaded =>
    \A i \in DOMAIN template.elements :
      Reconstructible(template.elements[i]) =>
        (Present(finished, i) <=> i \notin finished.failed)

\* a pass has finished with a failed decode and an object from a later record
C5_Witness ==
  /\ JustLoaded
  /\ \E j \in finished.failed :
       \E i \in (j + 1)..Len(template.elements) : Present(finished, i)

\* C6: when an undisturbed pass finishes, every record without an arm in
\* the switch has been warned about, and the canvas holds exactly the
\* objects reconstructed from the other records, in the records' order.
C6_UnknownTypeSkipped ==
  JustLoaded =>
    LET n == Len(template.elements)
        known == {i \in 1..n : template.elements[i].type \in SwitchCases}
        done == {i \in known : Reconstructible(template.elements[i])
                               /\ i \notin finished.failed}
    IN /\ finished.warned = (1..n) \ known
       /\ [k \in DOMAIN edObjects |-> edObjects[k].idx] = InOrder(1, n, done)
       /\ \A k \in DOMAIN edObjects :
            /\ edObjects[k].pass = finished.n
            /\ edObjects[k].type = template.elements[edObjects[k].idx].type

\* a pass has finished with a warned record between two reconstructed ones
C6_Witness ==
  /\ JustLoaded
  /\ \E j \in finished.warned :
       /\ \E i \in 1..(j - 1) : Present(finished, i)
       /\ \E i \in (j + 1)..Len(template.elements) : Present(finished, i)

\* C7: until a save has stored a row, every canvas object that carries an
\* imageId or a videoId has exactly one entry in the matching staging map,
\* in the creation session and in the editing session.
C7_OneStagingEntry ==
  /\ nRows = 0 =>
       \A i \in DOMAIN objects :
         /\ objects[i].imageId # 0 =>
              Entries(pendingImageUploads, objects[i].imageId) = 1
         /\ objects[i].videoId # 0 =>
              Entries(pendingVideoUploads, objects[i].videoId) = 1
  /\ edRows = 0 =>
       \A i \in DOMAIN edObjects :
         edObjects[i].imageId # 0 =>
           Entries(edPending, edObjects[i].imageId) = 1

\* an image and a video from files are on the canvas while a save is in flight
C7_Witness ==
  /\ nRows = 0
  /\ InFlight # {}
  /\ \E i, j \in DOMAIN objects :
       objects[i].imageId # 0 /\ objects[j].videoId # 0

\* C8: every staged upload a save issues is of a file whose element is on
\* the canvas when the upload is issued.
C8_UploadsOnlyPresentElements ==
  \A i \in DOMAIN saves :
    saves[i].pc \in {"img", "vid"} => saves[i].present

\* C9: when an undisturbed load of a row the creation session stored
\* finishes without a failed decode, the canvas holds one object per object
\* the row was assembled from, the i-th reconstructed from the i-th record.
C9_RoundTripOrder ==
  (inserted # NoRow /\ JustLoaded /\ finished.failed = {}) =>
    /\ Len(edObjects) = Len(insertedFrom)
    /\ \A i \in DOMAIN edObjects : edObjects[i].idx = i

\* C10: no user mutation of the canvas and no other pass runs inside a
\* loader pass.
C10_PassNotInterleaved ==
  /\ \A p \in DOMAIN passes : ~passes[p].disturbed
  /\ ~finished.disturbed

\* C11: while a save of the creation session is past its login (a staged
\* upload, the thumbnail upload or the insert pending), no step changes the
\* canvas objects or the template type or starts reading a file.
C11_ExportNotInterleaved ==
  [][InFlight # {} => /\ objects' = objects
                      /\ templateType' = templateType
                      /\ Len(reads') <= Len(reads)]_vars

\* C12: no element of a document without a `canvas` record is ever placed
\* on the canvas.
C12_MissingCanvasFatal ==
  (template # NoTemplate /\ ~HasCanvas(template)) =>
    \A k \in DOMAIN edObjects : edObjects[k].pass = 0

\* the n-th invocation of loadTemplateData is in flight
Running(n) == \E p \in DOMAIN passes : passes[p].n = n

\* C13: every load started on a document with a `canvas` record comes to
\* its end, and the loading indicator, once shown, is cleared.
C13_LoadReachesDone ==
  /\ \A n \in 1..(MaxEdits + 1) :
       (HasCanvas(template) /\ Running(n)) ~> ~Running(n)
  /\ (HasCanvas(template) /\ edLoading) ~> ~edLoading

\* a load has come to its end although every decode it started failed, the
\* background image's included
C13_Witness ==
  /\ finished # NoPass /\ HasCanvas(template)
  /\ HasUrl(template.canvas.backgroundImage) /\ edBackground = "none"
  /\ finished.failed # {}
  /\ finished.failed = {i \in DOMAIN template.elements :
                          NeedsDecode(template.elements[i])}
  /\ ~edLoading

\* C14: when an undisturbed pass finishes, every record of type video that
\* names a video resource has an object on the canvas (the loader starts no
\* fetch for such a record, so none can have failed).
C14_VideoReconstructed ==
  JustLoaded =>
    \A i \in DOMAIN template.elements :
      (template.elements[i].type = "video"
         /\ HasUrl(template.elements[i].videoUrl)) => Present(finished, i)

\* the durations of the video elements among objs
Durations(objs) ==
  LET vids == SelectSeq(objs, LAMBDA o : o.isVideo)
  IN  [i \in DOMAIN vids |-> vids[i].videoDuration]

\* C15: the maxDuration of every row a save inserts is the greatest
\* duration of the video elements the row was assembled from, and 0 or
\* absent when it was assembled from none.
C15_MaxDurationOfCanvas ==
  inserted # NoRow =>
    LET m == SeqMax(Durations(insertedFrom))
        written == inserted.layout_definition.maxDuration
    IN IF m = 0 THEN written \in {<<>>, <<0>>} ELSE written = <<m>>

\* C16: a video is staged or placed only when its file is at most
\* 40*1024*1024 bytes and its duration at most 50 seconds: a file over either
\* bound leaves no pending decode behind it, no staging entry and no element,
\* and every staged video id and every video element has passed both checks.
C16_VideoBoundsEnforced ==
  /\ \A r \in DOMAIN reads :
       reads[r].kind = "video" =>
         /\ reads[r].size <= 40 * 1024 * 1024
         /\ reads[r].duration <= 50
  /\ \A i \in DOMAIN objects :
       objects[i].isVideo => objects[i].videoDuration <= 50
  /\ maxDuration <= 50

\* a file exactly at both bounds is accepted: one such video is on the canvas
\* and staged, another has passed both checks and waits for its first frame
C16_Witness ==
  /\ \E i \in DOMAIN objects :
       /\ objects[i].isVideo /\ objects[i].videoDuration = 50
       /\ \E k \in DOMAIN pendingVideoUploads :
            pendingVideoUploads[k] = objects[i].videoId
  /\ \E r \in DOMAIN reads :
       /\ reads[r].kind = "video" /\ reads[r].stage = "frame"
       /\ reads[r].size = 40 * 1024 * 1024 /\ reads[r].duration = 50

\* C17: a save attempt with an empty template name is rejected before any
\* I/O: no credentials query (and so no upload and no insert) is ever issued
\* for an attempt whose template name is empty, in either session.
C17_EmptyNameNoIO ==
  /\ \A i \in DOMAIN saves : saves[i].templateName # ""
  /\ \A i \in DOMAIN edSaves : edSaves[i].templateName # ""

\* C18: right after a save whose insert succeeded, the staging maps are
\* empty and the template name, username and password are reset, in the
\* creator and in the editor.
C18_SavedResetsForm ==
  /\ outcome = "saved" =>
       /\ pendingImageUploads = <<>> /\ pendingVideoUploads = <<>>
       /\ templateName = "" /\ adminUsername = "" /\ adminPassword = ""
  /\ edOutcome = "saved" =>
       /\ edPending = <<>>
       /\ edTemplateName = "" /\ edAdminUsername = "" /\ edAdminPassword = ""

\* a save has just succeeded whose row carries the permanent URLs of a staged
\* image and of a staged video, and the form is back to its initial state
C18_Witness ==
  /\ outcome = "saved" /\ inserted # NoRow
  /\ \E i \in DOMAIN objects : objects[i].imageId # 0
  /\ \E i \in DOMAIN objects : objects[i].videoId # 0
  /\ \A e \in DOMAIN inserted.layout_definition.elements :
       inserted.layout_definition.elements[e].type \in {"image", "video"}
  /\ Len(inserted.layout_definition.elements) = 2
  /\ pendingImageUploads = <<>> /\ pendingVideoUploads = <<>>

AbortOutcomes == {"upload failed", "thumbnail failed", "insert failed"}

\* C19: the step that aborts a save (a failed staged upload, a failed
\* thumbnail, a failed insert or a thrown exception) leaves the staging maps,
\* the canvas elements and the template name as they were, in the creator and
\* in the editor; and an attempt that starts afterwards carries every staged
\* file with none marked as uploaded, so a retry uploads all of them again.
C19_AbortLeavesState ==
  [][/\ (Len(saves') < Len(saves) /\ outcome' \in AbortOutcomes) =>
          /\ pendingImageUploads' = pendingImageUploads
          /\ pendingVideoUploads' = pendingVideoUploads
          /\ objects' = objects
          /\ templateName' = templateName
     /\ (Len(edSaves') < Len(edSaves) /\ edOutcome' \in AbortOutcomes) =>
          /\ edPending' = edPending
          /\ edObjects' = edObjects
          /\ edTemplateName' = edTemplateName
     /\ Len(saves') > Len(saves) =>
          LET s == saves'[Len(saves')]
          IN  /\ s.pendingImageUploads = pendingImageUploads
              /\ s.pendingVideoUploads = pendingVideoUploads
              /\ s.imageUrlMapping = {} /\ s.videoUrlMapping = {}
              /\ s.k = 0
     /\ Len(edSaves') > Len(edSaves) =>
          LET s == edSaves'[Len(edSaves')]
          IN  /\ s.pendingImageUploads = edPending
              /\ s.imageUrlMapping = {} /\ s.k = 0]_vars

\* a save has just aborted with a file staged, an element on the canvas and
\* the template name still in its field
C19_Witness ==
  /\ outcome \in AbortOutcomes
  /\ saves = <<>>
  /\ pendingImageUploads # <<>>
  /\ objects # <<>>
  /\ templateName # ""

Within1px(a, b) == a - b <= 100 /\ b - a <= 100

\* C20: for every element (text, rectangle with stroke, circle, scaled image)
\* the bounding box of the object rebuilt from the exported record is within
\* one pixel of the bounding box of the object that was exported.
C20_RoundTripWithin1px ==
  rebuiltObject # NoFabric =>
    LET a == getBoundingRect(fabricObject)
        b == getBoundingRect(rebuiltObject)
    IN  /\ Within1px(a.left, b.left) /\ Within1px(a.top, b.top)
        /\ Within1px(a.width, b.width) /\ Within1px(a.height, b.height)

TwinDone(c) == twinPasses[c].pc = "done" /\ twinPasses[c].pending = {}

\* C21: the same document loaded into two fresh canvases with the same decode
\* outcomes gives two object sequences of the same length whose objects, position
\* by position, have the same type and are reconstructed from the same record.
C21_ReconstructionDeterministic ==
  (TwinDone(1) /\ TwinDone(2)) =>
    /\ Len(twinObjects[1]) = Len(twinObjects[2])
    /\ \A k \in DOMAIN twinObjects[1] :
         /\ twinObjects[1][k].type = twinObjects[2][k].type
         /\ twinObjects[1][k].idx = twinObjects[2][k].idx
         /\ twinObjects[1][k].imageId = twinObjects[2][k].imageId

\* both canvases have finished a document of two image records, the decode
\* of one having failed and the other's image being on each canvas
C21_Witness ==
  /\ TwinDone(1) /\ TwinDone(2)
  /\ twinFails # {}
  /\ Len(template.elements) = 2
  /\ \E k \in DOMAIN twinObjects[1] : twinObjects[1][k].type = "image"
  /\ twinObjects[1][1].pass = 1 /\ twinObjects[2][1].pass = 2

\* the type tag saveTemplate gives the record of a canvas object
TypeTag(o) == IF o.isVideo THEN "video" ELSE o.type

\* C22: when saveTemplate assembles the document, its `elements` array has
\* exactly one record per element on the canvas, in canvas order, the i-th
\* record carrying the type tag of the i-th canvas element.
C22_OneRecordPerElement ==
  [][\A i \in DOMAIN saves :
       (saves[i].pc = "thumb" /\ i \in DOMAIN saves' /\ saves'[i].pc = "insert") =>
         LET records == saves'[i].row.layout_definition.elements
         IN  /\ Len(records) = Len(objects)
             /\ \A k \in DOMAIN records :
                  /\ records[k].id = k
                  /\ records[k].type = TypeTag(objects[k])]_vars

\* C23: deleting an element removes it from the canvas and, in the same
\* step, removes its staging entry and releases its live decode resource: a
\* deleted video keeps neither a staging entry nor its object URL and <video>
\* element, a deleted image keeps no staging entry.
C23_DeleteReleases ==
  [][(/\ selectedObject # NoObj /\ selectedObject' = NoObj
      /\ templateType' = templateType
      /\ objects' = RemoveObject(objects, selectedObject)
      /\ Len(objects') < Len(objects)) =>
       /\ \A k \in DOMAIN pendingImageUploads' :
            pendingImageUploads'[k] # selectedObject.uid
       /\ \A k \in DOMAIN pendingVideoUploads' :
            pendingVideoUploads'[k] # selectedObject.uid
       /\ selectedObject.uid \notin liveVideos']_vars

\* C24: the canvas.width and canvas.height saveTemplate writes are the pixel
\* dimensions of the editing canvas at that moment, whatever downloads with
\* their multiplier have happened before.
C24_SavedCanvasDimensions ==
  [][\A i \in DOMAIN saves :
       (saves[i].pc = "thumb" /\ i \in DOMAIN saves' /\ saves'[i].pc = "insert") =>
         LET canvas == saves'[i].row.layout_definition.canvas
         IN  canvas.width = canvasSize.width /\ canvas.height = canvasSize.height]_vars

\* C25: when the background image of the document fails to decode, the load
\* goes on: an undisturbed pass that finishes after such a failure leaves the
\* canvas without a background image, has attempted every record (each one is
\* on the canvas, or its own decode failed, or it was skipped or warned about),
\* has placed the objects in the order of their records, and has cleared the
\* loading flag.
C25_BackgroundFailureNonFatal ==
  (JustLoaded /\ finished.bgFailed) =>
    LET n == Len(template.elements)
        placed == {i \in 1..n : Present(finished, i)}
    IN  /\ edBackground = "none"
        /\ finished.pc = "done"
        /\ \A i \in 1..n :
             \/ i \in placed
             \/ i \in finished.failed
             \/ i \in finished.warned
             \/ ~Reconstructible(template.elements[i])
        /\ [k \in DOMAIN edObjects |-> edObjects[k].idx] = InOrder(1, n, placed)
        /\ ~edLoading

\* a pass whose background decode failed has finished with objects from
\* every record of a document of MaxLoadDocLen records on the canvas
C25_Witness ==
  /\ JustLoaded /\ finished.bgFailed
  /\ Len(template.elements) >= 2
  /\ Len(edObjects) = Len(template.elements)
  /\ \E k \in DOMAIN edObjects : edObjects[k].type = "image"


\* width : height is 1 : 1
IsSquare(size) == size.width = size.height
\* width : height is 9 : 16 to the nearest pixel of width
IsNineBySixteen(size) ==
  /\ 16 * size.width - 9 * size.height \in -16..16
  /\ size.width < size.height

TypeDimensions(size, tt) ==
  IF tt = "video" THEN IsNineBySixteen(size) ELSE IsSquare(size)

edMaxDuration == <<>>

\* C27: once a load of a document that has a maxDuration has finished, the
\* editing session's playback-loop length is the document's maxDuration.
C27_LoaderRecordsMaxDuration ==
  (view = "editor" /\ JustLoaded /\ template.maxDuration # <<>>) =>
    edMaxDuration = template.maxDuration

\* the staged uploads of attempt s before position k of a loop have all
\* succeeded
UploadedBefore(pending, mapping, k) ==
  \A j \in 1..Len(pending) : j < k => pending[j] \in mapping

\* attempt t has just issued a request that attempt s had not issued
Issues(s, t, pc) == t.pc = pc /\ (s.pc # pc \/ s.k # t.k)

\* C28: the requests of a save are issued one after another.  A staged image
\* upload is issued only when every staged image before it has succeeded, a
\* staged video upload only when every staged image and every staged video
\* before it has succeeded, the thumbnail upload only when every staged
\* upload has succeeded, and the insert only by the step in which the
\* thumbnail upload succeeds.
C28_SaveStepsSequential ==
  [][\A i \in DOMAIN saves \cap DOMAIN saves' :
       LET s == saves[i]
           t == saves'[i]
           nImages == Len(t.pendingImageUploads)
           nVideos == Len(t.pendingVideoUploads)
       IN /\ Issues(s, t, "img") =>
               /\ s.pc = IF t.k = 1 THEN "auth" ELSE "img"
               /\ t.k = 1 \/ s.k = t.k - 1
               /\ UploadedBefore(t.pendingImageUploads, t.imageUrlMapping, t.k)
          /\ Issues(s, t, "vid") =>
               /\ s.pc = IF t.k > 1 THEN "vid"
                         ELSE IF nImages > 0 THEN "img" ELSE "auth"
               /\ t.k = 1 \/ s.k = t.k - 1
               /\ UploadedBefore(t.pendingImageUploads, t.imageUrlMapping,
                                 nImages + 1)
               /\ UploadedBefore(t.pendingVideoUploads, t.videoUrlMapping, t.k)
          /\ (t.pc = "thumb" /\ s.pc # "thumb") =>
               /\ s.pc = IF nVideos > 0 THEN "vid"
                         ELSE IF nImages > 0 THEN "img" ELSE "auth"
               /\ s.pc = "auth" \/ s.k = IF nVideos > 0 THEN nVideos ELSE nImages
               /\ UploadedBefore(t.pendingImageUploads, t.imageUrlMapping,
                                 nImages + 1)
               /\ UploadedBefore(t.pendingVideoUploads, t.videoUrlMapping,
                                 nVideos + 1)
               /\ ~t.failed
          /\ (t.pc = "insert" /\ s.pc # "insert") => s.pc = "thumb"]_vars

C28_Witness ==
  \E i \in DOMAIN saves :
    /\ saves[i].pc = "thumb"
    /\ Len(saves[i].pendingImageUploads) = 1
    /\ Len(saves[i].pendingVideoUploads) = 1
    /\ ~saves[i].failed

\* the records of doc a load turns into canvas objects when the decodes of
\* the records in failed fail
Reconstructed(doc, failed) ==
  {i \in DOMAIN doc.elements :
     Reconstructible(doc.elements[i]) /\ i \notin failed}

\* C29: when an undisturbed load finishes, every canvas object was built by
\* that load, the objects are those of the document's reconstructed records
\* in the records' order, and the background image is the document's or
\* none; when the load was a Reset to Original, the document is the original
\* one and no image is staged.
C29_LoadReplacesCanvas ==
  JustLoaded =>
    /\ \A k \in DOMAIN edObjects : edObjects[k].pass = finished.n
    /\ [k \in DOMAIN edObjects |-> edObjects[k].idx] =
         InOrder(1, Len(originalTemplateData.elements),
                 Reconstructed(originalTemplateData, finished.failed))
    /\ edBackground =
         IF HasUrl(template.canvas.backgroundImage) /\ ~finished.bgFailed
         THEN "image" ELSE "none"
    /\ finished.n > 1 => edPending = <<>> /\ originalTemplateData = template

\* a Reset to Original has finished in a session that had added an image:
\* the image and the first load's objects were on the canvas before it
C29_Witness ==
  /\ JustLoaded
  /\ finished.n > 1
  /\ edEdits > 0
  /\ edObjects # <<>>

\* C30: the record exported for a circle has width and height equal to
\* twice its radius, whatever the circle's stroke width and scale factors.
C30_CircleExtent ==
  (elementRecord # NoRecord /\ elementRecord.type = "circle") =>
    /\ elementRecord.width = 2 * elementRecord.radius
    /\ elementRecord.height = 2 * elementRecord.radius

\* a circle stretched by hand has been exported
C30_Witness ==
  /\ elementRecord # NoRecord
  /\ elementRecord.type = "circle"
  /\ fabricObject.scaleX # fabricObject.scaleY
  /\ fabricObject.scaleX # Scale(1, 1)

SaveEnded(ss, tt) ==
  /\ Len(tt) < Len(ss)
  /\ \E i \in DOMAIN ss : ss[i].pc # "auth" /\ (\A j \in DOMAIN tt : tt[j] # ss[i])

\* C32: the step in which an attempt ends, however it ends, leaves
\* adminLoading false in its session, and loading too when the attempt had
\* begun its save; and whenever the creation session has no attempt in flight
\* both its flags are false, so that the Save and Confirm buttons are not
\* held disabled by an attempt that is over.
C32_BusyFlagsReleased ==
  [][/\ Len(saves') < Len(saves) => ~adminLoading'
     /\ SaveEnded(saves, saves') => ~loading'
     /\ saves' = <<>> => ~loading' /\ ~adminLoading'
     /\ Len(edSaves') < Len(edSaves) => ~edAdminLoading'
     /\ SaveEnded(edSaves, edSaves') => ~edLoading'
     /\ edSaves' = <<>> => ~edAdminLoading']_vars

\* a save has ended on a failed thumbnail upload and the form can be
\* submitted again
C32_Witness ==
  /\ outcome = "thumbnail failed"
  /\ saves = <<>>
  /\ ~loading /\ ~adminLoading
  /\ SaveButtonEnabled

\* C33: the preview has at most one interval set at any time, and a step
\* taken while isPlaying is and stays false changes neither currentTime nor
\* the position of any video element.
C33_SingleTimerAndPause ==
  [][/\ Len(intervals') <= 1
     /\ (~isPlaying /\ ~isPlaying') =>
          /\ currentTime' = currentTime
          /\ \A v \in DOMAIN videoElement :
               videoElement'[v].currentTime = videoElement[v].currentTime]_vars

\* the preview is stopped and rewound and no interval is left
PlaybackStopped ==
  /\ ~isPlaying
  /\ currentTime = 0
  /\ intervals = <<>>
  /\ \A v \in videoObjects :
       videoElement[v].paused /\ videoElement[v].currentTime = 0

\* C34: a preview that has been started comes to its end: once the clock
\* has reached maxDuration the preview is stopped, with isPlaying false,
\* currentTime 0, every video paused at 0 and no interval left.
C34_PlaybackEnds == isPlaying ~> PlaybackStopped

\* a preview that ran to maxDuration untouched has just stopped
C34_Witness ==
  /\ PlaybackStopped
  /\ nToggles = 1
  /\ now >= maxDuration
  /\ maxDuration > 0

\* C35: after every step the elements list equals the canvas's objects in
\* their order, and a step that reorders the canvas moves one object from
\* its index to another and leaves the others in their order.
C35_MirrorEqualsCanvas ==
  [][/\ elements' = objects'
     /\ (objects' # objects /\ nextId' = nextId /\ Len(objects') = Len(objects)) =>
          \E i, j \in DOMAIN objects : objects' = arrayMove(objects, i, j)]_vars

\* attempt t of the step's end has a request in flight that the step's
\* beginning had already seen in flight, or that the step issued for attempt
\* s whose username has a credentials row and whose password matches
GrantedOrOlder(before, after, j) ==
  \/ \E i \in DOMAIN before : before[i] = after[j]
  \/ /\ j \in DOMAIN before
     /\ Len(after) = Len(before)
     /\ \/ before[j].pc # "auth"
        \/ /\ before[j].adminUsername = "admin"
           /\ before[j].adminPassword = "admin123"

\* C36: a staged upload, the thumbnail upload or the insert of an attempt is
\* issued only after that attempt's credentials query has found a row for
\* its username and its password has matched; a credential check that fails
\* or errors leaves the canvas, the staging maps and the template store as
\* they were.  In the creator and in the editor.
C36_NoIOWithoutLogin ==
  [][/\ \A j \in DOMAIN saves' :
          saves'[j].pc # "auth" => GrantedOrOlder(saves, saves', j)
     /\ \A j \in DOMAIN edSaves' :
          edSaves'[j].pc # "auth" => GrantedOrOlder(edSaves, edSaves', j)
     /\ nRows' # nRows =>
          \/ \E i \in DOMAIN saves : saves[i].pc = "insert"
          \/ \E i \in DOMAIN edSaves : edSaves[i].pc = "insert"
     /\ outcome' = "denied" =>
          UNCHANGED <<objects, pendingImageUploads, pendingVideoUploads,
                      storeVars>>
     /\ edOutcome' = "denied" =>
          UNCHANGED <<edObjects, edPending, edRows, storeVars>>]_vars

\* the first staged image of an attempt is being uploaded: the dialog has
\* closed on the granted login and the login handler has not returned yet
C36_Witness ==
  /\ ~showAdminModal /\ adminLoading /\ loading
  /\ \E i \in DOMAIN saves :
       /\ saves[i].pc = "img" /\ saves[i].k = 1
       /\ saves[i].imageUrlMapping = {}
====
